---- MODULE Spec2Model ----
(***************************************************************************)
(* Satellite-Insights: the launch-site map (LaunchSitesMap, the variant    *)
(* with timeline controls) and the government-vs-commercial chart          *)
(* (governmentVsCommercial), as state machines.                            *)
(*                                                                         *)
(* Text is modelled as JavaScript sees it: a string is a sequence of       *)
(* one-character strings, so that splitting, trimming, lower-casing,       *)
(* substring search, regular-expression tests, number parsing and number   *)
(* formatting are computed and not assumed.  Numbers that carry decimals   *)
(* (degrees of latitude and longitude) are fixed-point integers in units   *)
(* of 10^-5 degree.                                                        *)
(***************************************************************************)
EXTENDS Integers, Sequences, FiniteSets, TLC

(***************************************************************************)
(* Bounds of the model.                                                    *)
(***************************************************************************)
MaxRows == 3
MaxGovRows == 3
MaxOrbitRows == 2
MaxDomSkip == 3
MaxTicks == 6
MaxFrames == 1
MaxFades == 1
TopVehicles == 8

(***************************************************************************)
(* JavaScript values.  undefined and null are one-element sequences whose  *)
(* element is not a character, so they differ from every string.           *)
(***************************************************************************)
Undefined == <<"#undefined">>
Null == <<"#null">>
EmptyStr == <<>>

IsNullish(v) == v = Undefined \/ v = Null

\* JavaScript truthiness of undefined, null or a string
Falsy(v) == IsNullish(v) \/ v = EmptyStr

\* a Number: not-a-number, or a fixed-point value in units of 10^-5
NaN == [nan |-> TRUE, v |-> 0]
Num(x) == [nan |-> FALSE, v |-> x]
isNaN(n) == n.nan

DigitChars == <<"0", "1", "2", "3", "4", "5", "6", "7", "8", "9">>
IsDigit(c) == \E i \in 1..10 : DigitChars[i] = c
DigitVal(c) == (CHOOSE i \in 1..10 : DigitChars[i] = c) - 1
DigitChar(d) == DigitChars[d + 1]

UpperChars == <<"A","B","C","D","E","F","G","H","I","J","K","L","M","N","O","P","Q","R","S","T","U","V","W","X","Y","Z">>
LowerChars == <<"a","b","c","d","e","f","g","h","i","j","k","l","m","n","o","p","q","r","s","t","u","v","w","x","y","z">>
IsUpper(c) == \E i \in 1..26 : UpperChars[i] = c
IsLower(c) == \E i \in 1..26 : LowerChars[i] = c
LowerChar(c) == IF IsUpper(c) THEN LowerChars[CHOOSE i \in 1..26 : UpperChars[i] = c] ELSE c

\* String.prototype.toLowerCase
toLowerCase(s) == [i \in 1..Len(s) |-> LowerChar(s[i])]

\* \w of a regular expression without the u flag
IsWordChar(c) == IsUpper(c) \/ IsLower(c) \/ IsDigit(c) \/ c = "_"

\* \s of a regular expression, over the characters of the model
IsSpace(c) == c = " "

\* the literal lit occurs in s starting at position i
LitAt(s, i, lit) ==
    /\ i >= 1
    /\ i + Len(lit) - 1 <= Len(s)
    /\ \A k \in 1..Len(lit) : s[i + k - 1] = lit[k]

\* String.prototype.includes
includes(s, sub) == \E i \in 1..(Len(s) + 1) : LitAt(s, i, sub)

\* \b at the gap before position i of s (1 <= i <= Len(s) + 1)
WordBoundary(s, i) ==
    LET before == i > 1 /\ i - 1 <= Len(s) /\ IsWordChar(s[i - 1])
        after == i >= 1 /\ i <= Len(s) /\ IsWordChar(s[i])
    IN before # after

RECURSIVE SkipSpaces(_, _)
\* the first position >= i of s that holds no white space (the greedy \s*)
SkipSpaces(s, i) ==
    IF i <= Len(s) /\ IsSpace(s[i]) THEN SkipSpaces(s, i + 1) ELSE i

\* String.prototype.trim
RECURSIVE TrimEnd(_)
TrimEnd(s) ==
    IF Len(s) > 0 /\ IsSpace(s[Len(s)]) THEN TrimEnd(SubSeq(s, 1, Len(s) - 1)) ELSE s
trim(s) == TrimEnd(SubSeq(s, SkipSpaces(s, 1), Len(s)))

(***************************************************************************)
(* The site dictionary.  A rule's regular expression is a list of          *)
(* alternatives; an alternative is a list of literals separated by \s*,    *)
(* with \b before the first literal when pre holds and after the last when *)
(* post holds.  All the expressions carry the i flag, so the alternatives  *)
(* are written in lower case and tested against the lower-cased label.     *)
(* lon and lat are in units of 10^-5 degree.                               *)
(***************************************************************************)
Alt(pre, parts, post) == [pre |-> pre, parts |-> parts, post |-> post]
Rule(test, lon, lat, name) == [test |-> test, lon |-> lon, lat |-> lat, name |-> name]

siteDict == <<
    Rule(<<Alt(TRUE, <<<<"k","o","u","r","o","u">>>>, TRUE), Alt(TRUE, <<<<"g","u","i","a","n","a">>>>, TRUE)>>,
         -5276800, 523900,
         <<"G","u","i","a","n","a"," ","S","p","a","c","e"," ","C","e","n","t","e","r">>),
    Rule(<<Alt(TRUE, <<<<"c","a","p","e">>, <<"c","a","n","a","v","e","r","a","l">>>>, FALSE), Alt(FALSE, <<<<"k","e","n","n","e","d","y">>>>, TRUE)>>,
         -8060500, 2839600,
         <<"C","a","p","e"," ","C","a","n","a","v","e","r","a","l"," ","/"," ","K","S","C">>),
    Rule(<<Alt(TRUE, <<<<"v","a","n","d","e","n","b","e","r","g">>>>, TRUE)>>,
         -12061100, 3463200,
         <<"V","a","n","d","e","n","b","e","r","g">>),
    Rule(<<Alt(TRUE, <<<<"b","a","i","k","o","n","u","r">>>>, TRUE)>>,
         6330500, 4596400,
         <<"B","a","i","k","o","n","u","r"," ","C","o","s","m","o","d","r","o","m","e">>),
    Rule(<<Alt(TRUE, <<<<"p","l","e","s","e","t","s","k">>>>, TRUE)>>,
         4057700, 6292500,
         <<"P","l","e","s","e","t","s","k"," ","C","o","s","m","o","d","r","o","m","e">>),
    Rule(<<Alt(TRUE, <<<<"j","i","u","q","u","a","n">>>>, TRUE)>>,
         10029800, 4096000,
         <<"J","i","u","q","u","a","n"," ","S","L","C">>),
    Rule(<<Alt(TRUE, <<<<"x","i","c","h","a","n","g">>>>, TRUE)>>,
         10202600, 2824600,
         <<"X","i","c","h","a","n","g"," ","S","L","C">>),
    Rule(<<Alt(TRUE, <<<<"t","a","i","y","u","a","n">>>>, TRUE)>>,
         11160800, 3884600,
         <<"T","a","i","y","u","a","n"," ","S","L","C">>),
    Rule(<<Alt(TRUE, <<<<"w","e","n","c","h","a","n","g">>>>, TRUE)>>,
         11095100, 1961400,
         <<"W","e","n","c","h","a","n","g"," ","S","L","S">>),
    Rule(<<Alt(TRUE, <<<<"t","a","n","e","g","a","s","h","i","m","a">>>>, TRUE)>>,
         13095700, 3037500,
         <<"T","a","n","e","g","a","s","h","i","m","a">>),
    Rule(<<Alt(TRUE, <<<<"u","c","h","i","n","o","u","r","a">>>>, FALSE), Alt(FALSE, <<<<"k","a","g","o","s","h","i","m","a">>>>, TRUE)>>,
         13108100, 3125100,
         <<"U","c","h","i","n","o","u","r","a">>),
    Rule(<<Alt(TRUE, <<<<"s","v","o","b","o","d","n","y">>>>, FALSE), Alt(FALSE, <<<<"v","o","s","t","o","c","h","n","y">>>>, TRUE)>>,
         12812000, 5142000,
         <<"S","v","o","b","o","d","n","y","/","V","o","s","t","o","c","h","n","y">>),
    Rule(<<Alt(TRUE, <<<<"s","a","t","i","s","h">>>>, FALSE), Alt(FALSE, <<<<"s","r","i","h","a","r","i","k","o","t","a">>>>, FALSE), Alt(FALSE, <<<<"s","h","a","r">>>>, TRUE)>>,
         8023500, 1373300,
         <<"S","a","t","i","s","h"," ","D","h","a","w","a","n"," ","(","S","r","i","h","a","r","i","k","o","t","a",")">>),
    Rule(<<Alt(TRUE, <<<<"n","a","r","o">>>>, TRUE)>>,
         12753500, 3443100,
         <<"N","a","r","o">>),
    Rule(<<Alt(TRUE, <<<<"w","a","l","l","o","p","s">>>>, TRUE)>>,
         -7546600, 3794000,
         <<"W","a","l","l","o","p","s">>),
    Rule(<<Alt(TRUE, <<<<"k","o","d","i","a","k">>>>, FALSE), Alt(FALSE, <<<<"p","s","c","a">>>>, TRUE)>>,
         -15233900, 5743500,
         <<"K","o","d","i","a","k"," ","(","P","S","C","A",")">>),
    Rule(<<Alt(TRUE, <<<<"m","a","h","i","a">>>>, FALSE), Alt(TRUE, <<<<"m","a","h","í","a">>>>, FALSE), Alt(FALSE, <<<<"r","o","c","k","e","t">>, <<"l","a","b">>>>, FALSE), Alt(FALSE, <<<<"l","c","-","1">>>>, TRUE)>>,
         17786500, -3926200,
         <<"L","C","-","1"," ","M","a","h","i","a">>),
    Rule(<<Alt(TRUE, <<<<"d","o","m","b","a","r","o","v">>>>, FALSE), Alt(FALSE, <<<<"y","a","s","n","y">>>>, TRUE)>>,
         5953300, 5080300,
         <<"D","o","m","b","a","r","o","v","s","k","y"," ","(","Y","a","s","n","y",")">>),
    Rule(<<Alt(TRUE, <<<<"s","e","a">>, <<"l","a","u","n","c","h">>>>, FALSE), Alt(FALSE, <<<<"o","d","y","s","s","e","y">>>>, TRUE)>>,
         -15400000, 0,
         <<"S","e","a"," ","L","a","u","n","c","h"," ","(","e","q","u","a","t","o","r",")">>) >>


RECURSIVE MatchParts(_, _, _, _)
\* the position after a match of parts[k..] at position i of s, 0 when there is none
MatchParts(s, i, parts, k) ==
    IF k > Len(parts) THEN i
    ELSE LET j == IF k = 1 THEN i ELSE SkipSpaces(s, i)
         IN IF LitAt(s, j, parts[k])
            THEN MatchParts(s, j + Len(parts[k]), parts, k + 1)
            ELSE 0

\* one alternative of a rule's expression matches somewhere in s
AltMatches(s, alt) ==
    \E i \in 1..Len(s) :
        LET e == MatchParts(s, i, alt.parts, 1)
        IN /\ e > 0
           /\ alt.pre => WordBoundary(s, i)
           /\ alt.post => WordBoundary(s, e)

\* rule.test.test(name): the i flag is modelled by lower-casing the label
RuleTest(rule, name) ==
    LET lowered == toLowerCase(name)
    IN \E a \in 1..Len(rule.test) : AltMatches(lowered, rule.test[a])

\* the null that _siteFromName returns
NoSite == [hit |-> FALSE, lon |-> 0, lat |-> 0, canonical |-> <<>>]

RECURSIVE LastRule(_, _)
\* the loop of _siteFromName without its return: the last rule that matches
LastRule(name, q) ==
    IF q > Len(siteDict) THEN NoSite
    ELSE LET later == LastRule(name, q + 1)
         IN IF later.hit THEN later
            ELSE IF RuleTest(siteDict[q], name)
                 THEN [hit |-> TRUE, lon |-> siteDict[q].lon, lat |-> siteDict[q].lat,
                       canonical |-> siteDict[q].name]
                 ELSE NoSite

RECURSIVE FirstRule(_, _)
\* the loop of _siteFromName from rule q on: the first rule that matches
FirstRule(name, q) ==
    IF q > Len(siteDict) THEN NoSite
    ELSE IF RuleTest(siteDict[q], name)
         THEN [hit |-> TRUE, lon |-> siteDict[q].lon, lat |-> siteDict[q].lat,
               canonical |-> siteDict[q].name]
         ELSE FirstRule(name, q + 1)

\* _siteFromName
siteFromName(name) == IF Falsy(name) THEN NoSite ELSE FirstRule(name, 1)

RECURSIVE pickFrom(_, _, _)
pickFrom(d, names, k) ==
    IF k > Len(names) THEN Undefined
    ELSE IF names[k] \in DOMAIN d /\ ~IsNullish(d[names[k]]) /\ d[names[k]] # EmptyStr
         THEN d[names[k]]
         ELSE pickFrom(d, names, k + 1)

\* _pick: the first listed key whose value is neither null, undefined nor ''
pick(d, names) == pickFrom(d, names, 1)

(***************************************************************************)
(* Numbers.  ToNumber is the unary plus applied to undefined, null or a    *)
(* string: white space is trimmed, the empty string is 0, a decimal        *)
(* literal with at most five fraction digits (the fixed-point unit) is    *)
(* its value, anything else is NaN.                                        *)
(***************************************************************************)
RECURSIVE DigitsValue(_)
DigitsValue(ds) ==
    IF Len(ds) = 0 THEN 0
    ELSE 10 * DigitsValue(SubSeq(ds, 1, Len(ds) - 1)) + DigitVal(ds[Len(ds)])

AllDigits(ds) == \A i \in 1..Len(ds) : IsDigit(ds[i])

RECURSIVE Pow10(_)
Pow10(n) == IF n = 0 THEN 1 ELSE 10 * Pow10(n - 1)

\* the value of an unsigned decimal literal, NaN when s is none
UnsignedValue(s) ==
    LET dots == {i \in 1..Len(s) : s[i] = "."}
    IN IF dots = {}
       THEN IF Len(s) > 0 /\ AllDigits(s) THEN Num(DigitsValue(s) * Pow10(5)) ELSE NaN
       ELSE LET d == CHOOSE i \in dots : TRUE
                ip == SubSeq(s, 1, d - 1)
                fp == SubSeq(s, d + 1, Len(s))
            IN IF /\ Cardinality(dots) = 1
                  /\ AllDigits(ip) /\ AllDigits(fp)
                  /\ Len(ip) + Len(fp) > 0
                  /\ Len(fp) <= 5
               THEN Num(DigitsValue(ip) * Pow10(5)
                        + DigitsValue(fp) * Pow10(5 - Len(fp)))
               ELSE NaN

ToNumber(v) ==
    IF v = Undefined THEN NaN
    ELSE IF v = Null THEN Num(0)
    ELSE LET t == trim(v)
         IN IF t = EmptyStr THEN Num(0)
            ELSE IF t[1] = "-"
                 THEN LET u == UnsignedValue(Tail(t))
                      IN IF isNaN(u) THEN NaN ELSE Num(0 - u.v)
                 ELSE IF t[1] = "+" THEN UnsignedValue(Tail(t))
                 ELSE UnsignedValue(t)

RECURSIVE DigitsOf(_)
\* the decimal digits of a natural number, without leading zeros
DigitsOf(n) == IF n < 10 THEN <<DigitChar(n)>> ELSE DigitsOf(n \div 10) \o <<DigitChar(n % 10)>>

\* Number.prototype.toFixed(4) of a finite number x (in units of 10^-5):
\* the sign of x, then the nearest multiple of 10^-4 (the larger one on a tie)
toFixed4(x) ==
    LET a == IF x < 0 THEN 0 - x ELSE x
        n == (a + 5) \div 10
        f == n % 10000
    IN (IF x < 0 THEN <<"-">> ELSE <<>>)
       \o DigitsOf(n \div 10000) \o <<".">>
       \o <<DigitChar(f \div 1000), DigitChar((f \div 100) % 10),
            DigitChar((f \div 10) % 10), DigitChar(f % 10)>>

\* the site key with the latitude first
SiteKeyLatitudeFirst(lon, lat) == toFixed4(lat) \o <<",">> \o toFixed4(lon)

\* the site key `${lon.toFixed(4)},${lat.toFixed(4)}`
SiteKey(lon, lat) == toFixed4(lon) \o <<",">> \o toFixed4(lat)


(***************************************************************************)
(* Dates.  A Date carries the year getFullYear() returns; NoDate stands    *)
(* for an Invalid Date and for the null _parseDate returns instead of one.  *)
(* new Date(string) is defined by the language for the ISO date forms      *)
(* YYYY, YYYY-MM and YYYY-MM-DD only, read as UTC; the inputs of the model  *)
(* are ISO dates away from 1 January (where the local year could differ    *)
(* from the UTC year) and strings every engine rejects.                    *)
(***************************************************************************)
NoDate == [valid |-> FALSE, year |-> 0]
DateOfYear(y) == [valid |-> TRUE, year |-> y]

DaysInMonth(m) == IF m = 2 THEN 28 ELSE IF m \in {4, 6, 9, 11} THEN 30 ELSE 31

\* new Date(s) for a string s
DateFromString(s) ==
    LET yOk == Len(s) >= 4 /\ AllDigits(SubSeq(s, 1, 4))
        mOk == Len(s) >= 7 /\ s[5] = "-" /\ AllDigits(SubSeq(s, 6, 7))
                 /\ DigitsValue(SubSeq(s, 6, 7)) \in 1..12
        dOk == Len(s) = 10 /\ s[8] = "-" /\ AllDigits(SubSeq(s, 9, 10))
                 /\ DigitsValue(SubSeq(s, 9, 10)) \in 1..DaysInMonth(DigitsValue(SubSeq(s, 6, 7)))
    IN IF yOk /\ (Len(s) = 4 \/ (mOk /\ (Len(s) = 7 \/ dOk)))
       THEN DateOfYear(DigitsValue(SubSeq(s, 1, 4)))
       ELSE NoDate

\* new Date(year, monthIndex, day) for a day within 1..28: the month index
\* carries into the year
DateFromParts(y, monthIndex, day) == DateOfYear(y + (monthIndex \div 12))

\* the digits (at most max of them) of s from position i on
RECURSIVE DigitRun(_, _, _)
DigitRun(s, i, max) ==
    IF max > 0 /\ i <= Len(s) /\ IsDigit(s[i])
    THEN <<s[i]>> \o DigitRun(s, i + 1, max - 1)
    ELSE <<>>

\* String(raw).match(/^(\d{4})(?:-(\d{1,2}))?(?:-(\d{1,2}))?/): the groups, a
\* group that took no part being the empty string; <<>> without a match
DateMatch(s) ==
    IF Len(DigitRun(s, 1, 4)) < 4 THEN <<>>
    ELSE LET g2 == IF Len(s) >= 5 /\ s[5] = "-" THEN DigitRun(s, 6, 2) ELSE <<>>
             p3 == 6 + Len(g2)
             g3 == IF g2 # <<>> /\ Len(s) >= p3 /\ s[p3] = "-"
                   THEN DigitRun(s, p3 + 1, 2) ELSE <<>>
         IN <<SubSeq(s, 1, 4), g2, g3>>

\* _parseDate with the epoch in place of null
parseDateOrEpoch(raw) ==
    IF ~Falsy(raw) /\ DateFromString(raw).valid THEN DateFromString(raw)
    ELSE DateOfYear(1970)

\* _parseDate: NoDate (null), or a valid Date
parseDate(raw) ==
    IF Falsy(raw) THEN NoDate
    ELSE IF DateFromString(raw).valid THEN DateFromString(raw)
    ELSE LET m == DateMatch(raw)
         IN IF m # <<>>
            THEN DateFromParts(DigitsValue(m[1]),
                               IF m[2] # <<>> THEN DigitsValue(m[2]) - 1 ELSE 0,
                               IF m[3] # <<>> THEN DigitsValue(m[3]) ELSE 1)
            ELSE NoDate


(***************************************************************************)
(* Raw records.  A row is a function from column names to values (strings  *)
(* or null); a column the row lacks reads as undefined.  Columns lists the *)
(* column names the rows of the model use, in header order (the order of   *)
(* Object.keys).                                                           *)
(***************************************************************************)
Columns == <<"Launch Site", "Site", "Date of Launch", "Launch_Date", "Launch Date (UTC)",
             "lat", "lon", "Country", "Users", "owner">>

\* the columns of the model whose name matches /owner|user|operat|category|type/i
OwnerLikeColumn(k) == k \in {"Users", "owner"}

SiteNameKeys == <<"launch_site", "Launch Site", "Launch_Site", "Site">>
DateKeys == <<"date_of_launch", "Date of Launch", "Launch_Date", "Launch Date", "Date">>
LatKeys == <<"Launch_Site_Lat", "Launch Site Lat", "Launch Site Latitude", "site_lat", "lat", "Latitude">>
LonKeys == <<"Launch_Site_Lon", "Launch Site Lon", "Launch Site Longitude", "site_lon", "lon", "Longitude">>
CountryKeys == <<"Launch_Site_Country", "Launch Site Country", "Country of Launch", "Launch Country", "Country">>
OwnershipKeys == <<"Ownership", "Owner Type", "Owner_Type", "Operator Type", "Operator_Category",
                   "User Type", "User type", "Users", "Owner/Operator", "Operator/Owner">>

\* v || '' followed by toString().toLowerCase()
LowerOrEmpty(v) == IF Falsy(v) THEN EmptyStr ELSE toLowerCase(v)

RECURSIVE JoinOwnerLike(_, _, _)
\* the lower-cased values of the row's owner-like columns from column k on,
\* joined by ' | '
JoinOwnerLike(row, k, first) ==
    IF k > Len(Columns) THEN EmptyStr
    ELSE IF Columns[k] \in DOMAIN row /\ OwnerLikeColumn(Columns[k])
         THEN (IF first THEN EmptyStr ELSE <<" ", "|", " ">>)
              \o LowerOrEmpty(row[Columns[k]]) \o JoinOwnerLike(row, k + 1, FALSE)
         ELSE JoinOwnerLike(row, k + 1, first)

\* _classifyOwnership
classifyOwnership(row) ==
    LET primary == pick(row, OwnershipKeys)
        raw0 == LowerOrEmpty(primary)
        raw == IF raw0 = EmptyStr THEN JoinOwnerLike(row, 1, TRUE) ELSE raw0
    IN IF raw = EmptyStr THEN "unknown"
       ELSE IF \/ includes(raw, <<"g","o","v">>)
               \/ includes(raw, <<"m","i","l","i","t","a","r","y">>)
               \/ includes(raw, <<"s","t","a","t","e">>)
               \/ includes(raw, <<"c","i","v","i","l">>)
               \/ includes(raw, <<"g","o","v","e","r","n","m","e","n","t">>)
            THEN "government"
       ELSE IF \/ includes(raw, <<"c","o","m","m">>)
               \/ includes(raw, <<"c","o","m","m","e","r","c","i","a","l">>)
               \/ includes(raw, <<"p","r","i","v","a","t","e">>)
            THEN "commercial"
       ELSE "unknown"

\* v || alt for strings
OrElse(v, alt) == IF Falsy(v) THEN alt ELSE v

\* a variant that fills in each missing coordinate separately
ResolveCoordsEach(lat0, lon0, lookup) ==
    [ok |-> (~isNaN(lat0) /\ ~isNaN(lon0)) \/ lookup.hit,
     lat |-> IF isNaN(lat0) THEN lookup.lat ELSE lat0.v,
     lon |-> IF isNaN(lon0) THEN lookup.lon ELSE lon0.v]

\* A row whose latitude and longitude both coerce to numbers keeps them and
\* the dictionary is not consulted for its position; otherwise both
\* coordinates come from the dictionary entry, and a row without one is lost.
ResolveCoords(lat0, lon0, lookup) ==
    IF isNaN(lat0) \/ isNaN(lon0)
    THEN [ok |-> lookup.hit, lat |-> lookup.lat, lon |-> lookup.lon]
    ELSE [ok |-> TRUE, lat |-> lat0.v, lon |-> lon0.v]

\* What one iteration of the row loop of _prepLaunchEvents derives from a
\* row: drop when the loop continues without an event, else the event's
\* fields and the ownership class.
RowEvent(r) ==
    LET rawSiteName == OrElse(pick(r, SiteNameKeys), EmptyStr)
        dt == parseDate(pick(r, DateKeys))
        lat0 == ToNumber(pick(r, LatKeys))
        lon0 == ToNumber(pick(r, LonKeys))
        lookup == siteFromName(rawSiteName)
        canonicalName == IF lookup.hit THEN lookup.canonical
                         ELSE OrElse(rawSiteName, <<"U","n","k","n","o","w","n"," ","s","i","t","e">>)
        coords == ResolveCoords(lat0, lon0, lookup)
        lat == coords.lat
        lon == coords.lon
        dropped == ~dt.valid \/ ~coords.ok
    IN [drop |-> dropped,
        key |-> IF dropped THEN EmptyStr ELSE SiteKey(lon, lat),
        lon |-> IF dropped THEN 0 ELSE lon,
        lat |-> IF dropped THEN 0 ELSE lat,
        year |-> IF dropped THEN 0 ELSE dt.year,
        siteName |-> IF dropped THEN EmptyStr ELSE canonicalName,
        country |-> IF dropped THEN EmptyStr
                    ELSE OrElse(pick(r, CountryKeys), <<"U","n","k","n","o","w","n">>),
        ownerClass |-> IF dropped THEN "unknown" ELSE classifyOwnership(r)]


(***************************************************************************)
(* Inputs.  The strings the rows of the model are made of, and the rows.   *)
(***************************************************************************)
CapeCanaveral == <<"C","a","p","e"," ","C","a","n","a","v","e","r","a","l">>
KennedySpaceCenter == <<"K","e","n","n","e","d","y"," ","S","p","a","c","e"," ","C","e","n","t","e","r">>
BaikonurCosmodrome == <<"B","a","i","k","o","n","u","r"," ","C","o","s","m","o","d","r","o","m","e">>
Atlantis == <<"A","t","l","a","n","t","i","s">>
Date2015 == <<"2","0","1","5","-","0","6","-","0","1">>
Date2016 == <<"2","0","1","6","-","0","7","-","0","4">>
Date2023 == <<"2","0","2","3","-","0","3","-","0","9">>
DateMonth13 == <<"2","0","1","6","-","1","3","-","0","5">>
DateYear0 == <<"0","0","0","0","-","0","6","-","0","1">>
DateNA == <<"n","/","a">>
Blank == <<" ">>
Government == <<"G","o","v","e","r","n","m","e","n","t">>
Commercial == <<"C","o","m","m","e","r","c","i","a","l">>
GovSlashCom == <<"G","o","v","e","r","n","m","e","n","t","/","C","o","m","m","e","r","c","i","a","l">>
GovDashCom == <<"G","o","v","-","C","o","m">>
CivilGovTelecom == <<"C","i","v","i","l"," ","G","o","v","e","r","n","m","e","n","t",","," ","T","e","l","e","c","o","m">>
NasaSpaceX == <<"N","A","S","A","/","S","p","a","c","e","X">>
RocketLabWallops == <<"R","o","c","k","e","t"," ","L","a","b"," ","W","a","l","l","o","p","s">>
RocketLabLC1 == <<"R","o","c","k","e","t"," ","L","a","b"," ","L","C","-","1">>
LatNearCape == <<"2","8",".","3","9","6","0","2">>
LonNearCape == <<"-","8","0",".","6","0","4","9","8">>
Lat10 == <<"1","0",".","5">>
Lon20 == <<"2","0",".","2","5">>

\* a row of the launch file: site label, launch date, ownership
SiteRow(site, date, users) ==
    ("Launch Site" :> site) @@ ("Date of Launch" :> date) @@ ("Users" :> users)

\* the same with explicit coordinates
CoordRow(site, date, users, lat, lon) ==
    SiteRow(site, date, users) @@ ("lat" :> lat) @@ ("lon" :> lon)

\* the rows the aggregation is run on: two sites under three labels, three
\* years, the three ownership classes, and a row without a date
LaunchRows ==
    { SiteRow(CapeCanaveral, Date2015, Government),
      SiteRow(KennedySpaceCenter, Date2016, Commercial),
      SiteRow(CapeCanaveral, Date2023, Commercial),
      SiteRow(BaikonurCosmodrome, Date2015, Commercial),
      SiteRow(BaikonurCosmodrome, Date2016, Government),
      SiteRow(BaikonurCosmodrome, Date2023, Null),
      SiteRow(KennedySpaceCenter, DateMonth13, Government),
      SiteRow(CapeCanaveral, EmptyStr, Government) }

\* the rows site resolution is run on: labels of one rule, labels of two
\* rules, a label of no rule; coordinates given, missing, blank, half given
SiteRows ==
    { SiteRow(CapeCanaveral, Date2015, Government),
      SiteRow(KennedySpaceCenter, Date2016, Commercial),
      CoordRow(CapeCanaveral, Date2016, Commercial, Lat10, Lon20),
      CoordRow(Atlantis, Date2015, Government, Lat10, Lon20),
      CoordRow(Atlantis, Date2016, Government, LatNearCape, LonNearCape),
      SiteRow(Atlantis, Date2016, Government),
      CoordRow(Atlantis, Date2016, Commercial, Blank, Blank),
      SiteRow(RocketLabWallops, Date2016, Commercial),
      SiteRow(RocketLabLC1, Date2016, Commercial),
      SiteRow(CapeCanaveral, Date2016, Government) @@ ("lat" :> Lat10) }

\* rows that differ in their dates only
DateRows ==
    { SiteRow(CapeCanaveral, d, Government) :
        d \in {Date2015, Date2016, EmptyStr, Null, DateNA, Blank} }
    \cup { SiteRow(CapeCanaveral, EmptyStr, Commercial) @@ ("Launch_Date" :> Date2023) }

\* the rows the playback is run on
PlayRows ==
    { SiteRow(CapeCanaveral, d, Government) : d \in {Date2015, Date2016, Date2023, DateNA} }

\* launches from Baikonur, without coordinates
BaikonurRows ==
    { SiteRow(BaikonurCosmodrome, Date2015, Government),
      SiteRow(BaikonurCosmodrome, Date2016, Commercial) }

\* labels for the dictionary: none, one of no rule, one of a rule in capitals,
\* one naming two sites with the later rule's site first, one of two rules
KennedyCapitals == <<"K","E","N","N","E","D","Y">>
BaikonurOrKourou == <<"B","a","i","k","o","n","u","r"," ","/"," ","K","o","u","r","o","u">>
LabelRows ==
    { SiteRow(l, Date2016, Government) :
        l \in {EmptyStr, Null, Atlantis, KennedyCapitals, BaikonurOrKourou,
               RocketLabWallops, CapeCanaveral} }

\* every row of the model, and what the row loop derives from each
InputRows ==
    LaunchRows \cup SiteRows \cup DateRows \cup PlayRows \cup BaikonurRows \cup LabelRows
RowEventOf == [r \in InputRows |-> RowEvent(r)]

(***************************************************************************)
(* State.                                                                  *)
(*   LaunchSitesMap: launchesRaw (the rows given to the constructor), pc   *)
(*   and ri, yi (where the constructor stands, and the positions of the    *)
(*   row loop and of the year loop of _prepLaunchEvents), events,          *)
(*   allTimeStats, siteYearly, years, eventsByYear, cumulative,            *)
(*   cumulativeByYear, currentYearIndex (0-based, as in the code),         *)
(*   isPlaying, playbackTimer (0: undefined, else the id of the last       *)
(*   interval started), liveTimers (the ids of the intervals not yet       *)
(*   cleared), overlay (the "Play timeline" overlay is still there),       *)
(*   sliderValue, yearLabel and rendered (the year whose snapshot is bound *)
(*   to the site circles).                                                 *)
(*   governmentVsCommercial: rawData, gi (rows consumed by the forEach of  *)
(*   _processData), yearly, data (the returned series, <<>> until the      *)
(*   loop has ended) and gdone.                                            *)
(***************************************************************************)
VARIABLES launchesRaw, pc, ri, yi, events, allTimeStats, siteYearly, years,
          eventsByYear, cumulative, cumulativeByYear, snapshotObjects,
          currentYearIndex,
          isPlaying, playbackTimer, liveTimers, overlay, sliderValue,
          yearLabel, rendered,
          rawData, gi, yearly, data, gdone,
          launches, cstage, congData, width, height, ellipses,
          domRaw, dstage, domYears, vehicleData, selectedVehicle, displayData,
          sidebarVehicle,
          donutRaw, donutBuilt, donutLoop, donutEvents, donutI, donutSites,
          donutTimer, donutLive, donutTicks,
          animStage, animRows, bySemiMajor, animWidth, animHeight, scaleRange,
          globeRadius, visState, buttonText, orbitTag, orbitKeys, orbitGeometry,
          orbitsFading, detachedFades, satelliteData, satelliteElements,
          satelliteAnimationTimer, animTimers, animFrames

prepVars == <<launchesRaw, pc, ri, yi, events, allTimeStats, siteYearly, years,
              eventsByYear, cumulative, cumulativeByYear,
                   snapshotObjects>>
playVars == <<currentYearIndex, isPlaying, playbackTimer, liveTimers, overlay,
              sliderValue, yearLabel, rendered>>
govVars == <<rawData, gi, yearly, data, gdone>>
congVars == <<launches, cstage, congData, width, height, ellipses>>
domVars == <<domRaw, dstage, domYears, vehicleData, selectedVehicle, displayData,
             sidebarVehicle>>
donutVars == <<donutRaw, donutBuilt, donutLoop, donutEvents, donutI, donutSites,
               donutTimer, donutLive, donutTicks>>
animVars == <<animStage, animRows, bySemiMajor, animWidth, animHeight, scaleRange,
              globeRadius, visState, buttonText, orbitTag, orbitKeys, orbitGeometry,
              orbitsFading, detachedFades, satelliteData, satelliteElements,
              satelliteAnimationTimer, animTimers, animFrames>>
vars == <<prepVars, playVars, govVars, congVars, domVars, donutVars, animVars>>

\* the empty Map / object
EmptyMap == <<>>

\* a year that is undefined (years[i] for an index out of range)
NoYear == -1

\* Map.set / object property assignment
MapSet(m, k, v) == [x \in (DOMAIN m) \cup {k} |-> IF x = k THEN v ELSE m[x]]

(***************************************************************************)
(* _prepLaunchEvents, the row loop (one iteration per step).               *)
(***************************************************************************)
\* AllTimeAdd with every event counted as a government launch
AllTimeAddAsGovernment(stats, e) ==
    LET cur == IF e.key \in DOMAIN stats THEN stats[e.key]
               ELSE [key |-> e.key, lon |-> e.lon, lat |-> e.lat, siteName |-> e.siteName,
                     country |-> e.country, total |-> 0, govTotal |-> 0, commTotal |-> 0]
    IN MapSet(stats, e.key, [cur EXCEPT !.total = @ + 1, !.govTotal = @ + 1])

AllTimeAdd(stats, e) ==
    LET cur == IF e.key \in DOMAIN stats THEN stats[e.key]
               ELSE [key |-> e.key, lon |-> e.lon, lat |-> e.lat, siteName |-> e.siteName,
                     country |-> e.country, total |-> 0, govTotal |-> 0, commTotal |-> 0]
    IN MapSet(stats, e.key,
              [cur EXCEPT !.total = @ + 1,
                          !.govTotal = IF e.ownerClass = "government" THEN @ + 1 ELSE @,
                          !.commTotal = IF e.ownerClass = "commercial" THEN @ + 1 ELSE @])

SiteYearlyAdd(sy, e) ==
    LET site == IF e.key \in DOMAIN sy THEN sy[e.key]
                ELSE [key |-> e.key, lon |-> e.lon, lat |-> e.lat, siteName |-> e.siteName,
                      country |-> e.country, byYear |-> EmptyMap]
        entry == IF e.year \in DOMAIN site.byYear THEN site.byYear[e.year]
                 ELSE [year |-> e.year, gov |-> 0, comm |-> 0, total |-> 0]
        entry2 == [entry EXCEPT !.total = @ + 1,
                                !.gov = IF e.ownerClass = "government" THEN @ + 1 ELSE @,
                                !.comm = IF e.ownerClass = "commercial" THEN @ + 1 ELSE @]
    IN MapSet(sy, e.key, [site EXCEPT !.byYear = MapSet(site.byYear, e.year, entry2)])

TimelineEvent(e) ==
    [key |-> e.key, lon |-> e.lon, lat |-> e.lat, year |-> e.year,
     siteName |-> e.siteName, country |-> e.country]

PrepRow ==
    /\ pc = "rows"
    /\ ri < Len(launchesRaw)
    /\ LET e == RowEventOf[launchesRaw[ri + 1]]
       IN IF e.drop
          THEN UNCHANGED <<allTimeStats, siteYearly, events>>
          ELSE /\ allTimeStats' = AllTimeAdd(allTimeStats, e)
               /\ siteYearly' = SiteYearlyAdd(siteYearly, e)
               /\ events' = Append(events, TimelineEvent(e))
    /\ ri' = ri + 1
    /\ UNCHANGED <<launchesRaw, pc, yi, years, eventsByYear, cumulative, cumulativeByYear,
                   snapshotObjects>>
    /\ UNCHANGED <<playVars, govVars, congVars, domVars, donutVars, animVars>>


(***************************************************************************)
(* _prepLaunchEvents after the row loop: the sort, the time axis and the   *)
(* grouping by year; then the cumulative loop, one year per step.          *)
(***************************************************************************)
RECURSIVE SortAscending(_)
\* Array.from(set).sort((a, b) => a - b)
SortAscending(S) ==
    IF S = {} THEN <<>>
    ELSE LET m == CHOOSE x \in S : \A y \in S : x <= y
         IN <<m>> \o SortAscending(S \ {m})

RECURSIVE FilterYearUpTo(_, _)
\* FilterYear with <= in place of ===
FilterYearUpTo(evs, year) ==
    IF evs = <<>> THEN <<>>
    ELSE (IF Head(evs).year <= year THEN <<Head(evs)>> ELSE <<>>) \o FilterYearUpTo(Tail(evs), year)

RECURSIVE FilterYear(_, _)
\* evs.filter(e => e.year === year)
FilterYear(evs, year) ==
    IF evs = <<>> THEN <<>>
    ELSE (IF Head(evs).year = year THEN <<Head(evs)>> ELSE <<>>) \o FilterYear(Tail(evs), year)

RECURSIVE ConcatYears(_, _, _)
ConcatYears(evs, ys, k) ==
    IF k > Len(ys) THEN <<>> ELSE FilterYear(evs, ys[k]) \o ConcatYears(evs, ys, k + 1)

YearsOf(evs) == {evs[i].year : i \in 1..Len(evs)}

\* events.sort((a, b) => a.year - b.year): a stable sort by year
SortByYear(evs) == ConcatYears(evs, SortAscending(YearsOf(evs)), 1)

PrepSort ==
    /\ pc = "rows"
    /\ ri = Len(launchesRaw)
    /\ events' = SortByYear(events)
    /\ years' = SortAscending(YearsOf(events'))
    /\ eventsByYear' = [y \in YearsOf(events') |-> FilterYear(events', y)]
    /\ cumulativeByYear' = EmptyMap
    /\ snapshotObjects' = EmptyMap
    /\ cumulative' = EmptyMap
    /\ yi' = 0
    /\ pc' = "years"
    /\ UNCHANGED <<launchesRaw, ri, allTimeStats, siteYearly>>
    /\ UNCHANGED <<playVars, govVars, congVars, domVars, donutVars, animVars>>

\* CumulativeAdd with the count set, not incremented
CumulativeAddRestart(cum, ev, stats) ==
    MapSet(cum, ev.key,
           [key |-> ev.key, lon |-> ev.lon, lat |-> ev.lat, siteName |-> ev.siteName,
            country |-> ev.country, count |-> 1,
            totalAllYears |-> stats[ev.key].total,
            govTotal |-> stats[ev.key].govTotal,
            commTotal |-> stats[ev.key].commTotal])

\* the body of the inner forEach: one event applied to the running map
CumulativeAdd(cum, ev, stats) ==
    LET has == ev.key \in DOMAIN stats
        cur == IF ev.key \in DOMAIN cum THEN cum[ev.key]
               ELSE [key |-> ev.key, lon |-> ev.lon, lat |-> ev.lat,
                     siteName |-> IF has /\ stats[ev.key].siteName # EmptyStr
                                  THEN stats[ev.key].siteName ELSE ev.siteName,
                     country |-> IF has /\ stats[ev.key].country # EmptyStr
                                 THEN stats[ev.key].country
                                 ELSE OrElse(ev.country, <<"U","n","k","n","o","w","n">>),
                     count |-> 0,
                     totalAllYears |-> IF has THEN stats[ev.key].total ELSE 0,
                     govTotal |-> IF has THEN stats[ev.key].govTotal ELSE 0,
                     commTotal |-> IF has THEN stats[ev.key].commTotal ELSE 0]
    IN MapSet(cum, ev.key, [cur EXCEPT !.count = @ + 1])

RECURSIVE ApplyEvents(_, _, _)
ApplyEvents(cum, evs, stats) ==
    IF evs = <<>> THEN cum
    ELSE ApplyEvents(CumulativeAdd(cum, Head(evs), stats), Tail(evs), stats)

\* CopySites with the all-time total replaced by the running count
CopySitesRunningTotal(cum) == [k \in DOMAIN cum |-> [cum[k] EXCEPT !.totalAllYears = cum[k].count]]

\* new Map(Array.from(cumulative.entries()).map(([k, v]) => [k, { ...v }]))
CopySites(cum) == [k \in DOMAIN cum |-> cum[k]]

\* The aggregates are objects.  The object the running map holds under key k
\* is RunningObject(k); the object `{ ...v }` creates for key k in the
\* snapshot of a year is CopiedObject(year, k).  snapshotObjects records, per
\* stored year and key, which object the snapshot holds.
RunningObject(k) == <<k>>
CopiedObject(year, k) == <<k, year>>

\* the objects of a snapshot whose entries are [k, v], the running map's own
SnapshotObjectsShared(cum, year) == [k \in DOMAIN cum |-> RunningObject(k)]

\* the objects of the snapshot of a year: ([k, v]) => [k, { ...v }]
SnapshotObjects(cum, year) == [k \in DOMAIN cum |-> CopiedObject(year, k)]

\* `cumulative.get(ev.key).count += 1` writes to the running map's object:
\* a stored snapshot that holds that object shows the new value
SeenThrough(snaps, objs, cum) ==
    [y \in DOMAIN snaps |->
        [k \in DOMAIN snaps[y] |->
            IF objs[y][k] = RunningObject(k) THEN cum[k] ELSE snaps[y][k]]]

PrepYear ==
    /\ pc = "years"
    /\ yi < Len(years)
    /\ LET year == years[yi + 1]
       IN /\ cumulative' = ApplyEvents(cumulative, eventsByYear[year], allTimeStats)
          /\ cumulativeByYear' =
                 MapSet(SeenThrough(cumulativeByYear, snapshotObjects, cumulative'),
                        year, CopySites(cumulative'))
          /\ snapshotObjects' =
                 MapSet(snapshotObjects, year, SnapshotObjects(cumulative', year))
    /\ yi' = yi + 1
    /\ UNCHANGED <<launchesRaw, pc, ri, events, allTimeStats, siteYearly, years, eventsByYear>>
    /\ UNCHANGED <<playVars, govVars, congVars, domVars, donutVars, animVars>>


\* the default year of the map
defaultYear == 2023

\* Array.prototype.indexOf on years, 0-based, -1 when absent
IndexOfYear(ys, y) ==
    IF \E i \in 1..Len(ys) : ys[i] = y
    THEN (CHOOSE i \in 1..Len(ys) : ys[i] = y /\ \A j \in 1..(i - 1) : ys[j] # y) - 1
    ELSE 0 - 1

\* the end of _prepLaunchEvents: the index of the default year, or the last
PrepFinish ==
    /\ pc = "years"
    /\ yi = Len(years)
    /\ currentYearIndex' = IF IndexOfYear(years, defaultYear) >= 0
                           THEN IndexOfYear(years, defaultYear)
                           ELSE Len(years) - 1
    /\ pc' = "controls"
    /\ UNCHANGED <<launchesRaw, ri, yi, events, allTimeStats, siteYearly, years,
                   eventsByYear, cumulative, cumulativeByYear,
                   snapshotObjects>>
    /\ UNCHANGED <<isPlaying, playbackTimer, liveTimers, overlay, sliderValue,
                   yearLabel, rendered>>
    /\ UNCHANGED <<govVars, congVars, domVars, donutVars, animVars>>

(***************************************************************************)
(* Controls and rendering.                                                 *)
(***************************************************************************)
\* this.years[i] for a 0-based index i
YearAt(i) == IF i >= 0 /\ i < Len(years) THEN years[i + 1] ELSE NoYear

\* The value an <input type="range" min=0 max=years.length-1> holds after v
\* is written to it or chosen by the user: v brought into [min, max], and
\* min when max < min.
SliderHolds(v) ==
    LET max == Len(years) - 1
    IN IF max < 0 THEN 0 ELSE IF v < 0 THEN 0 ELSE IF v > max THEN max ELSE v

\* _updateVisualization at index i: the year label, and the snapshot bound
\* to the circles (left as it was when the year has no snapshot)
LabelAfterUpdate(i) == YearAt(i)
RenderedAfterUpdate(i) ==
    IF YearAt(i) \in DOMAIN cumulativeByYear THEN YearAt(i) ELSE rendered

\* _buildControls and the first _updateVisualization of the constructor
BuildControls ==
    /\ pc = "controls"
    /\ sliderValue' = SliderHolds(currentYearIndex)
    /\ overlay' = TRUE
    /\ yearLabel' = LabelAfterUpdate(currentYearIndex)
    /\ rendered' = RenderedAfterUpdate(currentYearIndex)
    /\ pc' = "ready"
    /\ UNCHANGED <<launchesRaw, ri, yi, events, allTimeStats, siteYearly, years,
                   eventsByYear, cumulative, cumulativeByYear,
                   snapshotObjects>>
    /\ UNCHANGED <<currentYearIndex, isPlaying, playbackTimer, liveTimers>>
    /\ UNCHANGED <<govVars, congVars, domVars, donutVars, animVars>>

\* the id setInterval returns: one no live interval has and playbackTimer
\* does not hold
FreshTimer == CHOOSE t \in 1..(Cardinality(liveTimers) + 2) :
                  t \notin liveTimers /\ t # playbackTimer

\* clearInterval left out: every live interval stays live
ClearedNoTimer == liveTimers

\* the live intervals after clearInterval(playbackTimer), guarded by
\* if (this.playbackTimer)
ClearedTimers == IF playbackTimer # 0 THEN liveTimers \ {playbackTimer} ELSE liveTimers

\* _pause without its clearInterval
PauseKeepsInterval ==
    /\ isPlaying' = FALSE
    /\ UNCHANGED <<playbackTimer, liveTimers>>

\* _pause
Pause ==
    /\ isPlaying' = FALSE
    /\ liveTimers' = ClearedTimers
    /\ UNCHANGED playbackTimer

\* _play: isPlaying = true, then _startPlayback
Play ==
    /\ isPlaying' = TRUE
    /\ playbackTimer' = FreshTimer
    /\ liveTimers' = ClearedTimers \cup {FreshTimer}

\* ShowIndex without yearSlider.property('value', ...)
ShowIndexSliderLeft(i) ==
    /\ currentYearIndex' = i
    /\ yearLabel' = LabelAfterUpdate(i)
    /\ rendered' = RenderedAfterUpdate(i)
    /\ UNCHANGED sliderValue

\* the index moves to i: slider, label and circles follow
ShowIndex(i) ==
    /\ currentYearIndex' = i
    /\ sliderValue' = SliderHolds(i)
    /\ yearLabel' = LabelAfterUpdate(i)
    /\ rendered' = RenderedAfterUpdate(i)

KeepIndex == UNCHANGED <<currentYearIndex, sliderValue, yearLabel, rendered>>

\* click on the "Play timeline" overlay button
OverlayClick ==
    /\ pc = "ready"
    /\ overlay
    /\ overlay' = FALSE
    /\ ShowIndex(0)
    /\ Play
    /\ UNCHANGED <<prepVars, govVars, congVars, domVars, donutVars, animVars>>

\* _togglePlay without the restart from the first year
TogglePlayFromCurrent ==
    /\ pc = "ready"
    /\ IF isPlaying THEN Pause ELSE Play
    /\ KeepIndex
    /\ UNCHANGED <<overlay, prepVars, govVars, congVars, domVars, donutVars, animVars>>

\* _togglePlay
TogglePlay ==
    /\ pc = "ready"
    /\ IF isPlaying
       THEN Pause /\ KeepIndex
       ELSE /\ IF currentYearIndex >= Len(years) - 1 THEN ShowIndex(0) ELSE KeepIndex
            /\ Play
    /\ UNCHANGED <<overlay, prepVars, govVars, congVars, domVars, donutVars, animVars>>

\* _stepForward without its test of the last index
StepForwardUnguarded ==
    /\ pc = "ready"
    /\ ShowIndex(currentYearIndex + 1)
    /\ UNCHANGED <<isPlaying, playbackTimer, liveTimers, overlay, prepVars, govVars, congVars, domVars, donutVars, animVars>>

\* _stepForward
StepForward ==
    /\ pc = "ready"
    /\ IF currentYearIndex < Len(years) - 1
       THEN ShowIndex(currentYearIndex + 1)
       ELSE KeepIndex
    /\ UNCHANGED <<isPlaying, playbackTimer, liveTimers, overlay, prepVars, govVars, congVars, domVars, donutVars, animVars>>

\* _stepBackward
StepBackward ==
    /\ pc = "ready"
    /\ IF currentYearIndex > 0
       THEN ShowIndex(currentYearIndex - 1)
       ELSE KeepIndex
    /\ UNCHANGED <<isPlaying, playbackTimer, liveTimers, overlay, prepVars, govVars, congVars, domVars, donutVars, animVars>>

\* the slider's input handler after the user asks for position v
SliderInput(v) ==
    /\ pc = "ready"
    /\ currentYearIndex' = SliderHolds(v)
    /\ sliderValue' = SliderHolds(v)
    /\ yearLabel' = LabelAfterUpdate(SliderHolds(v))
    /\ rendered' = RenderedAfterUpdate(SliderHolds(v))
    /\ UNCHANGED <<isPlaying, playbackTimer, liveTimers, overlay, prepVars, govVars, congVars, domVars, donutVars, animVars>>

\* the callback of the interval t, starting over after the last year
TickLooping(t) ==
    /\ pc = "ready"
    /\ t \in liveTimers
    /\ ShowIndex(IF currentYearIndex < Len(years) - 1 THEN currentYearIndex + 1 ELSE 0)
    /\ UNCHANGED <<isPlaying, playbackTimer, liveTimers>>
    /\ UNCHANGED <<overlay, prepVars, govVars, congVars, domVars, donutVars, animVars>>

\* the callback of the interval t
Tick(t) ==
    /\ pc = "ready"
    /\ t \in liveTimers
    /\ IF currentYearIndex < Len(years) - 1
       THEN /\ ShowIndex(currentYearIndex + 1)
            /\ UNCHANGED <<isPlaying, playbackTimer, liveTimers>>
       ELSE Pause /\ KeepIndex
    /\ UNCHANGED <<overlay, prepVars, govVars, congVars, domVars, donutVars, animVars>>


(***************************************************************************)
(* governmentVsCommercial._processData.                                    *)
(***************************************************************************)
GovDateKeys == <<"date_of_launch", "Date of Launch", "Launch Date", "Launch_Date",
                 "Launch Date (UTC)", "Date">>
GovOwnerKeys == <<"owner", "ownership", "users", "operator/owner", "Operator/Owner", "Users">>

\* d[k], undefined when the row has no such column
Field(d, k) == IF k \in DOMAIN d THEN d[k] ELSE Undefined

RECURSIVE FirstTruthy(_, _, _)
\* d[n1] || d[n2] || ... : the first truthy operand, else the last operand
FirstTruthy(d, names, k) ==
    IF k = Len(names) \/ ~Falsy(Field(d, names[k])) THEN Field(d, names[k])
    ELSE FirstTruthy(d, names, k + 1)

\* String(v)
StringOf(v) ==
    IF v = Undefined THEN <<"u","n","d","e","f","i","n","e","d">>
    ELSE IF v = Null THEN <<"n","u","l","l">>
    ELSE v

\* the first run of four digits of s, <<>> when there is none: s.match(/(\d{4})/)
FourDigits(s) ==
    IF \E i \in 1..Len(s) : Len(DigitRun(s, i, 4)) = 4
    THEN LET i == CHOOSE q \in 1..Len(s) :
                      /\ Len(DigitRun(s, q, 4)) = 4
                      /\ \A o \in 1..(q - 1) : Len(DigitRun(s, o, 4)) < 4
         IN SubSeq(s, i, i + 3)
    ELSE <<>>

\* the local parseDate of _processData: the year, NoYear for null
gvcParseDate(str) ==
    IF Falsy(str) THEN NoYear
    ELSE IF FourDigits(StringOf(str)) # <<>> THEN DigitsValue(FourDigits(StringOf(str)))
    ELSE NoYear

IsSeparator(c) == c \in {";", ",", "/"}

RECURSIVE SplitOwners(_, _, _)
\* s.split(/[;,/]+/) from position i on, cur being the piece begun
SplitOwners(s, i, cur) ==
    IF i > Len(s) THEN <<cur>>
    ELSE IF IsSeparator(s[i])
         THEN IF i > 1 /\ IsSeparator(s[i - 1])
              THEN SplitOwners(s, i + 1, cur)
              ELSE <<cur>> \o SplitOwners(s, i + 1, <<>>)
         ELSE SplitOwners(s, i + 1, Append(cur, s[i]))

RECURSIVE TrimAndDropEmpty(_)
\* .map(o => o.trim()).filter(Boolean)
TrimAndDropEmpty(ps) ==
    IF ps = <<>> THEN <<>>
    ELSE (IF trim(Head(ps)) = EmptyStr THEN <<>> ELSE <<trim(Head(ps))>>)
         \o TrimAndDropEmpty(Tail(ps))

OwnerTokens(owner) == TrimAndDropEmpty(SplitOwners(StringOf(owner), 1, <<>>))

\* /gov/i.test(o) and /com/i.test(o)
TestGov(o) == includes(toLowerCase(o), <<"g","o","v">>)
TestCom(o) == includes(toLowerCase(o), <<"c","o","m">>)

\* the local classify of _processData, applied to the token array
gvcClassify(owners) ==
    IF \E i \in 1..Len(owners) : toLowerCase(owners[i]) = <<"c","o","m","m","e","r","c","i","a","l">>
    THEN "Commercial"
    ELSE IF \E i \in 1..Len(owners) : toLowerCase(owners[i]) = <<"g","o","v","e","r","n","m","e","n","t">>
    THEN "Government"
    ELSE "Other"

\* the forEach callback with a single category pick: government wins
GovRowEffectSinglePick(d) ==
    LET year == gvcParseDate(FirstTruthy(d, GovDateKeys, 1))
        owners == OwnerTokens(FirstTruthy(d, GovOwnerKeys, 1))
        noYear == year = NoYear \/ year = 0
        dual == /\ Len(owners) > 1
                /\ \E i \in 1..Len(owners) : TestGov(owners[i])
                /\ \E i \in 1..Len(owners) : TestCom(owners[i])
        cat == gvcClassify(owners)
    IN [skip |-> noYear \/ Len(owners) = 0,
        year |-> IF noYear THEN 0 ELSE year,
        govAdd |-> IF dual \/ cat = "Government" THEN 1 ELSE 0,
        comAdd |-> IF ~dual /\ cat = "Commercial" THEN 1 ELSE 0]

\* What the forEach callback derives from a row: skip when it returns
\* before touching yearly, else the year and the two increments.
GovRowEffect(d) ==
    LET year == gvcParseDate(FirstTruthy(d, GovDateKeys, 1))
        owners == OwnerTokens(FirstTruthy(d, GovOwnerKeys, 1))
        noYear == year = NoYear \/ year = 0
        dual == /\ Len(owners) > 1
                /\ \E i \in 1..Len(owners) : TestGov(owners[i])
                /\ \E i \in 1..Len(owners) : TestCom(owners[i])
        cat == gvcClassify(owners)
    IN [skip |-> noYear \/ Len(owners) = 0,
        year |-> IF noYear THEN 0 ELSE year,
        govAdd |-> IF dual \/ cat = "Government" THEN 1 ELSE 0,
        comAdd |-> IF dual \/ cat = "Commercial" THEN 1 ELSE 0]

\* a row of the government-vs-commercial chart
GovRecord(date, owner) == ("Date of Launch" :> date) @@ ("Users" :> owner)

GovRows ==
    { GovRecord(Date2016, GovSlashCom),
      GovRecord(Date2016, GovDashCom),
      GovRecord(Date2015, Government),
      GovRecord(Date2015, Commercial),
      GovRecord(Date2016, CivilGovTelecom),
      GovRecord(Date2015, NasaSpaceX),
      GovRecord(DateYear0, GovSlashCom),
      GovRecord(EmptyStr, GovSlashCom),
      ("Date of Launch" :> Date2015) }

\* what the forEach callback derives from each row of the model
GovRowEffectOf == [d \in GovRows \cup DateRows |-> GovRowEffect(d)]

GovRow ==
    /\ ~gdone
    /\ gi < Len(rawData)
    /\ LET f == GovRowEffectOf[rawData[gi + 1]]
       IN IF f.skip
          THEN UNCHANGED yearly
          ELSE LET cur == IF f.year \in DOMAIN yearly THEN yearly[f.year]
                          ELSE [year |-> f.year, government |-> 0, commercial |-> 0]
               IN yearly' = MapSet(yearly, f.year,
                                   [cur EXCEPT !.government = @ + f.govAdd,
                                               !.commercial = @ + f.comAdd])
    /\ gi' = gi + 1
    /\ UNCHANGED <<rawData, data, gdone>>
    /\ UNCHANGED <<prepVars, playVars, congVars, domVars, donutVars, animVars>>

\* Object.values(yearly) with the difference added, sorted by year
GovFinish ==
    /\ ~gdone
    /\ gi = Len(rawData)
    /\ LET ys == SortAscending(DOMAIN yearly)
       IN data' = [i \in 1..Len(ys) |->
                      [year |-> ys[i],
                       government |-> yearly[ys[i]].government,
                       commercial |-> yearly[ys[i]].commercial,
                       difference |-> yearly[ys[i]].commercial - yearly[ys[i]].government]]
    /\ gdone' = TRUE
    /\ UNCHANGED <<rawData, gi, yearly>>
    /\ UNCHANGED <<prepVars, playVars, congVars, domVars, donutVars, animVars>>


(***************************************************************************)
(* main.js and Congestion.  A pixel length is a rational number, kept in   *)
(* lowest terms; the result of Math.sqrt is held by its square.            *)
(***************************************************************************)
RECURSIVE GCD(_, _)
GCD(a, b) == IF b = 0 THEN a ELSE GCD(b, a % b)
Abs(x) == IF x < 0 THEN 0 - x ELSE x

\* the rational n/d, d # 0, in lowest terms with a positive denominator
Rat(n, d) ==
    LET g == GCD(Abs(n), Abs(d))
        sgn == IF d < 0 THEN 0 - 1 ELSE 1
    IN [n |-> sgn * (n \div g), d |-> sgn * (d \div g)]
\* the least common multiple of two denominators
LCM(a, b) == (a \div GCD(a, b)) * b
RatAdd(x, y) ==
    LET l == LCM(x.d, y.d) IN Rat(x.n * (l \div x.d) + y.n * (l \div y.d), l)
RatSub(x, y) ==
    LET l == LCM(x.d, y.d) IN Rat(x.n * (l \div x.d) - y.n * (l \div y.d), l)
RatMul(x, y) == Rat(x.n * y.n, x.d * y.d)
RatHalf(x) == Rat(x.n, 2 * x.d)
RatLess(x, y) == RatSub(x, y).n < 0
RatLeq(x, y) == RatSub(x, y).n <= 0
RatZero == Rat(0, 1)
\* Math.max(0, x)
RatMax0(x) == IF x.n < 0 THEN RatZero ELSE x

OrbitFields == {"perigee_(km)", "apogee_(km)", "inclination_(degrees)", "eccentricity"}

\* toNum of coerceRow: '' and null and undefined give NaN, else unary plus
toNum(v) == IF v = EmptyStr \/ IsNullish(v) THEN NaN ELSE ToNumber(v)

\* coerceRow: the four orbital fields as numbers
coerceRow(d) == [f \in OrbitFields |-> toNum(Field(d, f))]

\* +x || 0 for a Number x
NumberOrZero(x) == IF isNaN(x) \/ x.v = 0 THEN Num(0) ELSE x

\* the forEach of loadCongestion applied to a coerced row
ZeroMissing(d) == [f \in OrbitFields |-> NumberOrZero(d[f])]

\* d3.max(rows, d => +d['apogee_(km)'] || 0) || 1, in units of 10^-5
MaxApogee(rows) ==
    LET aps == {NumberOrZero(rows[i]["apogee_(km)"]).v : i \in 1..Len(rows)}
        top == IF aps = {} THEN 0 ELSE CHOOSE m \in aps : \A o \in aps : o <= m
    IN IF top = 0 THEN Pow10(5) ELSE top

\* Math.min(width, height) / 2 * 0.95
MaxRadius(w, h) == Rat((IF w < h THEN w ELSE h) * 19, 40)

\* vis.scale(x): d3.scaleLinear().domain([0, maxApogee]).range([0, maxRadius])
Scale(rows, w, h, x) == RatMul(Rat(x, MaxApogee(rows)), MaxRadius(w, h))

\* the rx callback reading the perigee twice
SemiMajorOfPerigee(rows, w, h, d) ==
    LET pe == Scale(rows, w, h, NumberOrZero(d["perigee_(km)"]).v)
    IN RatHalf(RatAdd(pe, pe))

\* the rx callback
SemiMajor(rows, w, h, d) ==
    LET ap == Scale(rows, w, h, NumberOrZero(d["apogee_(km)"]).v)
        pe == Scale(rows, w, h, NumberOrZero(d["perigee_(km)"]).v)
    IN RatHalf(RatAdd(ap, pe))

\* the ry callback with the two squares added
SemiMinorSquaredOfSum(rows, w, h, d) ==
    LET ap == Scale(rows, w, h, NumberOrZero(d["apogee_(km)"]).v)
        pe == Scale(rows, w, h, NumberOrZero(d["perigee_(km)"]).v)
        a == RatHalf(RatAdd(ap, pe))
        c == RatHalf(RatSub(ap, pe))
    IN RatAdd(RatMul(a, a), RatMul(c, c))

\* the ry callback: the square of the value it returns
SemiMinorSquared(rows, w, h, d) ==
    LET ap == Scale(rows, w, h, NumberOrZero(d["apogee_(km)"]).v)
        pe == Scale(rows, w, h, NumberOrZero(d["perigee_(km)"]).v)
        a == RatHalf(RatAdd(ap, pe))
        c == RatHalf(RatSub(ap, pe))
    IN RatMax0(RatSub(RatMul(a, a), RatMul(c, c)))

\* updateVis: one ellipse per row, in the order of the rows
Ellipses(rows, w, h) ==
    [i \in 1..Len(rows) |->
        [rx |-> SemiMajor(rows, w, h, rows[i]),
         rySquared |-> SemiMinorSquared(rows, w, h, rows[i]),
         rotate |-> NumberOrZero(rows[i]["inclination_(degrees)"])]]

\* the box sizes of the host element, and the size the chart takes from one
BoxSizes == {0, 900}
ResizedBoxSizes == {200, 500}
Floor320(x) == IF x < 320 THEN 320 ELSE x

\* data = launches.map(row => coerceRow(row))
CoerceRows ==
    /\ cstage = "csv"
    /\ congData' = [i \in 1..Len(launches) |-> coerceRow(launches[i])]
    /\ cstage' = "coerced"
    /\ UNCHANGED <<launches, width, height, ellipses>>
    /\ UNCHANGED <<prepVars, playVars, govVars, domVars, donutVars, animVars>>

\* loadCongestion on a non-empty data: the forEach, the constructor (the
\* box of the host being bw by bh, 0 standing for none), initVis, updateVis
LoadCongestion(bw, bh) ==
    /\ cstage = "coerced"
    /\ Len(congData) > 0
    /\ LET rows == [i \in 1..Len(congData) |-> ZeroMissing(congData[i])]
           w == Floor320(IF bw = 0 THEN 900 ELSE bw)
           h == Floor320(IF bh = 0 THEN 600 ELSE bh)
       IN /\ congData' = rows
          /\ width' = w
          /\ height' = h
          /\ ellipses' = Ellipses(rows, w, h)
    /\ cstage' = "drawn"
    /\ UNCHANGED launches
    /\ UNCHANGED <<prepVars, playVars, govVars, domVars, donutVars, animVars>>

\* resize, the box of the host being bw by bh
Resize(bw, bh) ==
    /\ cstage = "drawn"
    /\ width' = Floor320(bw)
    /\ height' = Floor320(bh)
    /\ ellipses' = Ellipses(congData, Floor320(bw), Floor320(bh))
    /\ UNCHANGED <<launches, cstage, congData>>
    /\ UNCHANGED <<prepVars, playVars, govVars, domVars, donutVars, animVars>>

\* the strings of the orbital columns, and the rows of the orbit file
Km1 == <<"1">>
Km2 == <<"2">>
Km4 == <<"4">>
Zero == <<"0">>
Degrees45 == <<"4","5">>
OrbitRow(pe, ap, inc) ==
    ("perigee_(km)" :> pe) @@ ("apogee_(km)" :> ap)
        @@ ("inclination_(degrees)" :> inc) @@ ("eccentricity" :> EmptyStr)
OrbitRows ==
    { OrbitRow(pe, ap, Degrees45) :
        pe \in {EmptyStr, Km1, Km2}, ap \in {Null, Km1, Km2, Km4} }
    \cup { OrbitRow(Km1, Km2, EmptyStr), OrbitRow(Zero, Zero, Degrees45) }

(***************************************************************************)
(* LaunchDominance (the line chart).  A vehicle name is a string; null is  *)
(* NoVehicle.  A row holds launch_vehicle, year and num_satellites.        *)
(***************************************************************************)
NoVehicle == "#null"
\* !v for a vehicle name or null
FalsyVehicle(v) == v = NoVehicle \/ v = ""

RECURSIVE SumOver(_, _)
\* the sum of f over the set S
SumOver(S, f) ==
    IF S = {} THEN 0
    ELSE LET x == CHOOSE y \in S : TRUE IN f[x] + SumOver(S \ {x}, f)

\* the position of the first row of vehicle v
FirstRowOf(rows, v) ==
    CHOOSE i \in 1..Len(rows) :
        rows[i].launch_vehicle = v /\ \A j \in 1..(i - 1) : rows[j].launch_vehicle # v
VehiclesOf(rows) == {rows[i].launch_vehicle : i \in 1..Len(rows)}

\* the satellites and the launches of vehicle v in year y, and over all years
YearSatellites(rows, v, y) ==
    SumOver({i \in 1..Len(rows) : rows[i].launch_vehicle = v /\ rows[i].year = y},
            [i \in 1..Len(rows) |-> rows[i].num_satellites])
YearLaunches(rows, v, y) ==
    Cardinality({i \in 1..Len(rows) : rows[i].launch_vehicle = v /\ rows[i].year = y})
TotalSatellites(rows, v) ==
    SumOver({i \in 1..Len(rows) : rows[i].launch_vehicle = v},
            [i \in 1..Len(rows) |-> rows[i].num_satellites])
TotalLaunches(rows, v) ==
    Cardinality({i \in 1..Len(rows) : rows[i].launch_vehicle = v})

\* vehicleTotals after the sort: by total satellites, largest first, equal
\* totals in the order the vehicles first appear
Outranks(rows, u, v) ==
    \/ TotalSatellites(rows, u) > TotalSatellites(rows, v)
    \/ /\ TotalSatellites(rows, u) = TotalSatellites(rows, v)
       /\ FirstRowOf(rows, u) < FirstRowOf(rows, v)
RankedVehicles(rows) ==
    [k \in 1..Cardinality(VehiclesOf(rows)) |->
        CHOOSE v \in VehiclesOf(rows) :
            Cardinality({u \in VehiclesOf(rows) : Outranks(rows, u, v)}) = k - 1]

\* .slice(0, 8)
SliceTop(vs) == SubSeq(vs, 1, IF Len(vs) < TopVehicles THEN Len(vs) ELSE TopVehicles)

\* allYears
AllYears(rows) == SortAscending({rows[i].year : i \in 1..Len(rows)})

\* fullData with each year's own satellites in place of the running total
FullDataPerYear(rows, v) ==
    LET ys == AllYears(rows)
    IN [k \in 1..Len(ys) |->
          [launch_vehicle |-> v,
           year |-> ys[k],
           launches |-> YearLaunches(rows, v, ys[k]),
           satellites |-> YearSatellites(rows, v, ys[k]),
           accumulated_satellites |-> YearSatellites(rows, v, ys[k])]]

\* fullData of a vehicle: one point per year, the satellites accumulated
FullData(rows, v) ==
    LET ys == AllYears(rows)
    IN [k \in 1..Len(ys) |->
          [launch_vehicle |-> v,
           year |-> ys[k],
           launches |-> YearLaunches(rows, v, ys[k]),
           satellites |-> YearSatellites(rows, v, ys[k]),
           accumulated_satellites |->
               SumOver(1..k, [j \in 1..Len(ys) |-> YearSatellites(rows, v, ys[j])])]]

\* accumulatedSatellites once fullData is built
AccumulatedSatellites(fullData) ==
    IF Len(fullData) = 0 THEN 0 ELSE fullData[Len(fullData)].accumulated_satellites

\* this.vehicleData
VehicleData(rows) ==
    LET top == SliceTop(RankedVehicles(rows))
    IN [k \in 1..Len(top) |->
          [vehicle |-> top[k],
           data |-> FullData(rows, top[k]),
           totalSatellites |-> AccumulatedSatellites(FullData(rows, top[k])),
           totalLaunches |-> TotalLaunches(rows, top[k])]]

\* the vehicles _drawChart draws when sel is selected
DisplayData(vd, sel) ==
    IF FalsyVehicle(sel) THEN [k \in 1..Len(vd) |-> vd[k].vehicle]
    ELSE SelectSeq([k \in 1..Len(vd) |-> vd[k].vehicle], LAMBDA v : v = sel)

\* the vehicle whose details _updateSidebar shows, the one shown kept when
\* vehicleData has none of that name
SidebarAfterSelect(vd, sel, shown) ==
    IF \E k \in 1..Len(vd) : vd[k].vehicle = sel THEN sel ELSE shown

\* the constructor
DomConstruct ==
    /\ dstage = "new"
    /\ domYears' = AllYears(domRaw)
    /\ vehicleData' = VehicleData(domRaw)
    /\ selectedVehicle' = NoVehicle
    /\ displayData' = DisplayData(VehicleData(domRaw), NoVehicle)
    /\ sidebarVehicle' = NoVehicle
    /\ dstage' = "built"
    /\ UNCHANGED domRaw
    /\ UNCHANGED <<prepVars, playVars, govVars, congVars, donutVars, animVars>>

\* _selectVehicle
SelectVehicle(v) ==
    /\ selectedVehicle' = v
    /\ displayData' = DisplayData(vehicleData, v)
    /\ sidebarVehicle' = SidebarAfterSelect(vehicleData, v, sidebarVehicle)

\* _deselectVehicle
DeselectVehicle ==
    IF FalsyVehicle(selectedVehicle)
    THEN UNCHANGED <<selectedVehicle, displayData, sidebarVehicle>>
    ELSE /\ selectedVehicle' = NoVehicle
         /\ displayData' = DisplayData(vehicleData, NoVehicle)
         /\ sidebarVehicle' = NoVehicle

\* the click handler of a legend item, a line or a dot of vehicle v
ClickToggle(v) == IF selectedVehicle = v THEN DeselectVehicle ELSE SelectVehicle(v)

\* click on the legend item of vehicleData[k]
ClickLegend(k) ==
    /\ dstage = "built"
    /\ k \in 1..Len(vehicleData)
    /\ ClickToggle(vehicleData[k].vehicle)
    /\ UNCHANGED <<domRaw, dstage, domYears, vehicleData>>
    /\ UNCHANGED <<prepVars, playVars, govVars, congVars, donutVars, animVars>>

\* click on the line or a dot of the k-th vehicle drawn
ClickLine(k) ==
    /\ dstage = "built"
    /\ k \in 1..Len(displayData)
    /\ ClickToggle(displayData[k])
    /\ UNCHANGED <<domRaw, dstage, domYears, vehicleData>>
    /\ UNCHANGED <<prepVars, playVars, govVars, congVars, donutVars, animVars>>

\* click on the background of the chart
ClickBackground ==
    /\ dstage = "built"
    /\ DeselectVehicle
    /\ UNCHANGED <<domRaw, dstage, domYears, vehicleData>>
    /\ UNCHANGED <<prepVars, playVars, govVars, congVars, donutVars, animVars>>

\* the rows of launch_dominance.json the model draws on: ten vehicles, one
\* of them without a name, over three years
DomRow(v, y, n) == [launch_vehicle |-> v, year |-> y, num_satellites |-> n]
DomMaster ==
    << DomRow("Soyuz", 2019, 3), DomRow("Falcon 9", 2020, 5), DomRow("", 2020, 4),
       DomRow("Atlas V", 2019, 2), DomRow("Falcon 9", 2021, 6), DomRow("Ariane 5", 2021, 2),
       DomRow("PSLV", 2020, 3), DomRow("Proton", 2019, 1), DomRow("Electron", 2021, 1),
       DomRow("Long March", 2020, 4), DomRow("Delta IV", 2019, 0), DomRow("Vega", 2021, 1),
       DomRow("H-IIA", 2020, 1) >>
\* the files of the model: what is left of the master rows when the first
\* lo of them and all beyond the first hi are left out
DomFiles ==
    {SubSeq(DomMaster, lo + 1, hi) : lo \in 0..MaxDomSkip, hi \in 0..Len(DomMaster)}

(***************************************************************************)
(* LaunchSitesMap, the variant that plays one event per tick and draws a   *)
(* donut per site.  donutRaw is launchesRaw, donutLoop is opts.loop,       *)
(* donutEvents, donutI, donutSites and donutTimer are events, i, sites and *)
(* timer; donutLive holds the ids of the live intervals and donutTicks     *)
(* counts the callbacks that have run.  The dates of the model's rows that *)
(* fall in one year are the same date, so the order of dt is the order of  *)
(* the years.                                                              *)
(***************************************************************************)
DonutUserKeys == <<"users", "Users", "User", "Owner Type", "Category">>
categories == <<"Government", "Military", "Commercial", "Civilian">>

\* _normalizeCategory with the test of 'gov' first
normalizeCategoryGovFirst(raw) ==
    IF Falsy(raw) THEN "Civilian"
    ELSE LET v == toLowerCase(StringOf(raw))
         IN IF includes(v, <<"g","o","v">>) THEN "Government"
            ELSE IF includes(v, <<"m","i","l","i","t">>) THEN "Military"
            ELSE IF includes(v, <<"c","o","m">>) THEN "Commercial"
            ELSE "Civilian"

\* _normalizeCategory
normalizeCategory(raw) ==
    IF Falsy(raw) THEN "Civilian"
    ELSE LET v == toLowerCase(StringOf(raw))
         IN IF includes(v, <<"m","i","l","i","t">>) THEN "Military"
            ELSE IF includes(v, <<"g","o","v">>) THEN "Government"
            ELSE IF includes(v, <<"c","o","m">>) THEN "Commercial"
            ELSE IF includes(v, <<"c","i","v","i","l">>) THEN "Civilian"
            ELSE IF \/ includes(v, <<"r","e","s","e","a","r","c","h">>)
                    \/ includes(v, <<"u","n","i","v","e","r","s","i","t","y">>)
                 THEN "Civilian"
            ELSE "Civilian"

\* one iteration of the row loop of this variant's _prepLaunchEvents
DonutRowEvent(r) ==
    LET siteName == OrElse(pick(r, SiteNameKeys), EmptyStr)
        users == pick(r, DonutUserKeys)
        dt == parseDate(pick(r, DateKeys))
        lat0 == ToNumber(pick(r, LatKeys))
        lon0 == ToNumber(pick(r, LonKeys))
        coords == ResolveCoords(lat0, lon0, siteFromName(siteName))
        dropped == ~dt.valid \/ ~coords.ok
    IN [drop |-> dropped,
        key |-> IF dropped THEN EmptyStr ELSE SiteKey(coords.lon, coords.lat),
        lon |-> IF dropped THEN 0 ELSE coords.lon,
        lat |-> IF dropped THEN 0 ELSE coords.lat,
        year |-> IF dropped THEN 0 ELSE dt.year,
        category |-> normalizeCategory(users),
        siteName |-> OrElse(siteName, <<"U","n","k","n","o","w","n"," ","s","i","t","e">>)]

\* the rows this variant is run on, and what its row loop derives from each
Military == <<"M","i","l","i","t","a","r","y">>
MilitaryGovernment == <<"M","i","l","i","t","a","r","y","/","G","o","v","e","r","n","m","e","n","t">>
MilitGov == <<"M","i","l","i","t",".","/","G","o","v",".">>
Civil == <<"C","i","v","i","l">>
UsersValues == {Null, EmptyStr, MilitaryGovernment, MilitGov, GovSlashCom, Civil, NasaSpaceX}
\* rows of one site and one date that differ in their users only
CategoryRows == {SiteRow(CapeCanaveral, Date2016, u) : u \in UsersValues}
\* rows of two sites, two years and two categories, and one without a date
DonutRows ==
    {SiteRow(l, d, u) : l \in {CapeCanaveral, BaikonurCosmodrome},
                        d \in {Date2015, Date2016}, u \in {Military, Commercial}}
    \cup {SiteRow(CapeCanaveral, DateNA, Commercial)}
DonutRowEventOf == [r \in CategoryRows \cup DonutRows |-> DonutRowEvent(r)]

RECURSIVE DonutEventsOf(_, _)
\* the events pushed by the rows from the k-th on
DonutEventsOf(rows, k) ==
    IF k > Len(rows) THEN <<>>
    ELSE LET e == DonutRowEventOf[rows[k]]
         IN (IF e.drop THEN <<>>
             ELSE <<[key |-> e.key, lon |-> e.lon, lat |-> e.lat, year |-> e.year,
                     category |-> e.category, siteName |-> e.siteName]>>)
            \o DonutEventsOf(rows, k + 1)

\* the id of the interval _play starts
DonutFreshTimer == CHOOSE t \in 1..(Cardinality(donutLive) + 2) :
                       t \notin donutLive /\ t # donutTimer
\* the live intervals after _stop
DonutStopped == IF donutTimer # 0 THEN donutLive \ {donutTimer} ELSE donutLive

\* _play: _stop, then a new interval
DonutPlay ==
    /\ donutTimer' = DonutFreshTimer
    /\ donutLive' = DonutStopped \cup {DonutFreshTimer}

\* the constructor: _prepLaunchEvents, then _play
DonutConstruct ==
    /\ ~donutBuilt
    /\ donutEvents' = SortByYear(DonutEventsOf(donutRaw, 1))
    /\ donutI' = 0
    /\ donutSites' = EmptyMap
    /\ DonutPlay
    /\ donutBuilt' = TRUE
    /\ UNCHANGED <<donutRaw, donutLoop, donutTicks>>
    /\ UNCHANGED <<prepVars, playVars, govVars, congVars, domVars, animVars>>

\* byCat with one more of category c
ByCatAdd(byCat, c) == [byCat EXCEPT ![c] = @ + 1]

\* the body of _tick below its guard, with the count left as it was
SitesAfterEventUncounted(sites, ev) ==
    LET cur == IF ev.key \in DOMAIN sites THEN sites[ev.key]
               ELSE [key |-> ev.key, lon |-> ev.lon, lat |-> ev.lat, siteName |-> ev.siteName,
                     count |-> 0,
                     byCat |-> [c \in {categories[k] : k \in 1..Len(categories)} |-> 0]]
    IN MapSet(sites, ev.key, [cur EXCEPT !.byCat = ByCatAdd(@, ev.category)])

\* the body of _tick below its guard: the event counted under its site
SitesAfterEvent(sites, ev) ==
    LET cur == IF ev.key \in DOMAIN sites THEN sites[ev.key]
               ELSE [key |-> ev.key, lon |-> ev.lon, lat |-> ev.lat, siteName |-> ev.siteName,
                     count |-> 0,
                     byCat |-> [c \in {categories[k] : k \in 1..Len(categories)} |-> 0]]
    IN MapSet(sites, ev.key,
              [cur EXCEPT !.count = @ + 1, !.byCat = ByCatAdd(@, ev.category)])

\* _restart
DonutRestart ==
    /\ donutI' = 0
    /\ donutSites' = EmptyMap
    /\ DonutPlay

\* what _tick does once every event is consumed, with the loop option ignored
DonutAtEndAlwaysRestarts == DonutRestart

\* what _tick does once every event is consumed
DonutAtEnd ==
    IF donutLoop THEN DonutRestart
    ELSE UNCHANGED <<donutI, donutSites, donutTimer, donutLive>>

\* the callback of the interval t: _tick
DonutTick(t) ==
    /\ donutBuilt
    /\ t \in donutLive
    /\ donutTicks < MaxTicks
    /\ donutTicks' = donutTicks + 1
    /\ IF donutI >= Len(donutEvents)
       THEN DonutAtEnd
       ELSE /\ donutI' = donutI + 1
            /\ donutSites' = SitesAfterEvent(donutSites, donutEvents[donutI + 1])
            /\ UNCHANGED <<donutTimer, donutLive>>
    /\ UNCHANGED <<donutRaw, donutBuilt, donutLoop, donutEvents>>
    /\ UNCHANGED <<prepVars, playVars, govVars, congVars, domVars, animVars>>

(***************************************************************************)
(* The animated Congestion (unnamed/part_002).  Two classes of that name   *)
(* are kept there: the one deriving a satellite's speed from its power,    *)
(* which listens to resize, and the one deriving it from the semi-major    *)
(* axis, which does not.  A row holds its orbit class, perigee, apogee and *)
(* power as numbers, and is keyed by its position (its norad_number).  An  *)
(* angle or a speed is a whole number of thousandths of a radian, a speed  *)
(* being truncated to it; a pixel length is a rational.  The orbit         *)
(* elements in the document are named by the keys of their data.           *)
(***************************************************************************)
\* Math.PI * 2 and the baseSpeed 0.02, in thousandths of a radian
TwoPi == 6283
baseSpeed == 20
\* the padding added to a scaled altitude, in pixels
OrbitPadding == 15

Elliptical == "Elliptical"
LEO == "LEO"

\* +sat['power_(watts)'] || 100
PowerOrDefault(p) == IF p = 0 THEN 100 ELSE p

\* d3.max(vis.data, d => +d['apogee_(km)'] || 0) || 1
AnimMaxApogee(rows) ==
    LET apogees == {rows[i].apogee : i \in 1..Len(rows)}
        m == IF apogees = {} THEN 0 ELSE CHOOSE x \in apogees : \A y \in apogees : y <= x
    IN IF m = 0 THEN 1 ELSE m

\* vis.scale(x) + 15, the range of vis.scale ending at radius
Padded(rows, radius, x) ==
    RatAdd(RatMul(Rat(x, AnimMaxApogee(rows)), radius), Rat(OrbitPadding, 1))

\* a = (ap + pe) / 2 and c = (ap - pe) / 2 of a row
AnimSemiMajor(rows, radius, d) ==
    RatHalf(RatAdd(Padded(rows, radius, d.apogee), Padded(rows, radius, d.perigee)))
AnimFocus(rows, radius, d) ==
    RatHalf(RatSub(Padded(rows, radius, d.apogee), Padded(rows, radius, d.perigee)))
\* Math.max(1, a * a - c * c), the square of b
RatMax1(x) == IF RatLess(x, Rat(1, 1)) THEN Rat(1, 1) ELSE x
AnimSemiMinorSquared(rows, radius, d) ==
    RatMax1(RatSub(RatMul(AnimSemiMajor(rows, radius, d), AnimSemiMajor(rows, radius, d)),
                   RatMul(AnimFocus(rows, radius, d), AnimFocus(rows, radius, d))))

\* the attributes updateVis gives the ellipse of each row: rx is a plus the
\* radius of the globe, ry is the root of bSquared plus the radius of the globe
EllipseGeometry(rows, radius, w, h, globe) ==
    [i \in 1..Len(rows) |->
        [cx |-> Rat(w, 2), cy |-> Rat(h, 2),
         rx |-> RatAdd(AnimSemiMajor(rows, radius, rows[i]), globe),
         bSquared |-> AnimSemiMinorSquared(rows, radius, rows[i]),
         globe |-> globe]]

\* Math.min(width, height) / 2 * 0.95, and projection.scale(height / 5 or 6)
ScaleRange(w, h) == MaxRadius(w, h)
GlobeRadius(distance, h) == Rat(h, IF distance THEN 6 ELSE 5)

\* the whole part of baseSpeed / Math.pow(a, 0.5), and of
\* baseSpeed / Math.pow(a, 0.4): the greatest s with s^2 * a <= baseSpeed^2,
\* and with s^5 * a^2 <= baseSpeed^5
SpeedBySquareRoot(a) ==
    CHOOSE s \in 0..baseSpeed :
        /\ s * s * a.n <= baseSpeed * baseSpeed * a.d
        /\ (s + 1) * (s + 1) * a.n > baseSpeed * baseSpeed * a.d
Fifth(s) == s * s * s * s * s
SpeedByFifthRoot(a) ==
    LET limit == (Fifth(baseSpeed) * a.d * a.d) \div (a.n * a.n)
    IN CHOOSE s \in 0..baseSpeed : Fifth(s) <= limit /\ Fifth(s + 1) > limit

\* the speed of a sampled satellite: (power / 1000) * 0.01 in the one class,
\* baseSpeed / Math.pow(a, exponent) in the other, the exponent being 0.5
\* for an elliptical orbit and 0.4 for any other
SpeedOf(distance, rows, radius, d) ==
    IF distance
    THEN IF d.class_of_orbit = Elliptical
         THEN SpeedBySquareRoot(AnimSemiMajor(rows, radius, d))
         ELSE SpeedByFifthRoot(AnimSemiMajor(rows, radius, d))
    ELSE PowerOrDefault(d.power) \div 100

\* the keys of the rows sampled by animateSatellites, the elliptical ones
\* first; every row is sampled while there are at most 60 of them
RECURSIVE KeysWhere(_, _, _)
KeysWhere(rows, i, elliptical) ==
    IF i > Len(rows) THEN <<>>
    ELSE (IF (rows[i].class_of_orbit = Elliptical) = elliptical THEN <<i>> ELSE <<>>)
         \o KeysWhere(rows, i + 1, elliptical)
SampledKeys(rows) == KeysWhere(rows, 1, TRUE) \o KeysWhere(rows, 1, FALSE)

\* sampledData before the starting angles are drawn
SampledData(distance, rows, radius, globe) ==
    LET keys == SampledKeys(rows)
    IN [k \in 1..Len(keys) |->
          [key |-> keys[k],
           rx |-> RatAdd(AnimSemiMajor(rows, radius, rows[keys[k]]), globe),
           a |-> AnimSemiMajor(rows, radius, rows[keys[k]]),
           angle |-> 0,
           speed |-> SpeedOf(distance, rows, radius, rows[keys[k]])]]

\* the values Math.random() * Math.PI * 2 takes here
RandomAngles == {0, TwoPi - 5}

\* d.angle += d.speed; if (d.angle > Math.PI * 2) d.angle -= Math.PI * 2
Advanced(d) ==
    LET angle == d.angle + d.speed
    IN [d EXCEPT !.angle = IF angle > TwoPi THEN angle - TwoPi ELSE angle]

\* dataCondensed: one record for each orbit class of the data
CondensedKeys(rows) ==
    LET classes == {rows[i].class_of_orbit : i \in 1..Len(rows)}
    IN 1..Cardinality(classes)

\* the keys updateVis joins the orbit elements with, and the tag it appends
TargetKeys(rows, st) == IF st = 1 THEN CondensedKeys(rows) ELSE 1..Len(rows)
TargetTag(st) == IF st = 1 THEN "circle" ELSE "ellipse"

\* vis.satelliteAnimationTimer.stop() of animateSatellites, null being 0:
\* the timers left running
KeptExisting == animTimers
StoppedExisting == animTimers \ {satelliteAnimationTimer}
AnimFreshTimer(live) == IF \E t \in 1..2 : t \notin live
                        THEN CHOOSE t \in 1..2 : t \notin live /\ \A u \in 1..(t - 1) : u \in live
                        ELSE 3

\* animateSatellites, the range of vis.scale ending at radius and
\* projection.scale() being globe
AnimateSatellites(radius, globe) ==
    /\ LET sampled == SampledData(bySemiMajor, animRows, radius, globe)
       IN \E angles \in [1..Len(sampled) -> RandomAngles] :
             satelliteData' = [k \in 1..Len(sampled) |->
                                  [sampled[k] EXCEPT !.angle = angles[k]]]
    /\ satelliteElements' = Len(SampledKeys(animRows))
    /\ satelliteAnimationTimer' = AnimFreshTimer(StoppedExisting)
    /\ animTimers' = StoppedExisting \cup {AnimFreshTimer(StoppedExisting)}

\* stopSatelliteAnimation
StopSatelliteAnimation ==
    /\ animTimers' = animTimers \ {satelliteAnimationTimer}
    /\ satelliteAnimationTimer' = 0
    /\ satelliteElements' = 0
    /\ UNCHANGED satelliteData

\* updateVis on a width, height, scale and globe radius with vis.state = st: the
\* document holds the orbit elements keysBefore, under a transition when
\* fadingBefore, and those of removeAfter are removed once updateVis returns
UpdateVis(w, h, radius, globe, st, keysBefore, fadingBefore, detachedBefore, removeAfter) ==
    LET matched == orbitTag = TargetTag(st) /\ keysBefore # {}
        keys == TargetKeys(animRows, st) \ (IF matched THEN removeAfter ELSE {})
    IN /\ orbitTag' = TargetTag(st)
       /\ orbitKeys' = keys
       /\ orbitsFading' = (matched /\ fadingBefore /\ keys # {})
       /\ detachedFades' = detachedBefore
                            + (IF fadingBefore /\ ~matched /\ keysBefore # {} THEN 1 ELSE 0)
       /\ orbitGeometry' = IF st = 0
                           THEN EllipseGeometry(animRows, radius, w, h, globe)
                           ELSE <<>>
       /\ IF st = 0 THEN AnimateSatellites(radius, globe) ELSE StopSatelliteAnimation

\* the sizes of the host box, 0 standing for none
AnimBoxes == {<<0, 0>>, <<320, 320>>}
AnimResizedBoxes == {<<0, 400>>}

\* new Congestion(hostId, data, condensed) and initVis, up to its updateVis
AnimConstruct(bw, bh) ==
    /\ animStage = "new"
    /\ animStage' = "built"
    /\ LET w == Floor320(IF bw = 0 THEN 900 ELSE bw)
           h == Floor320(IF bh = 0 THEN 600 ELSE bh)
       IN /\ animWidth' = w
          /\ animHeight' = h
          /\ scaleRange' = ScaleRange(w, h)
          /\ globeRadius' = GlobeRadius(bySemiMajor, h)
          /\ visState' = 0
          /\ buttonText' = "Simplify Me"
          /\ UpdateVis(w, h, ScaleRange(w, h), GlobeRadius(bySemiMajor, h), 0, {}, FALSE, 0, {})
    /\ UNCHANGED <<animRows, bySemiMajor, animFrames>>
    /\ UNCHANGED <<prepVars, playVars, govVars, congVars, domVars, donutVars>>

\* vis.state after a click on the button showing text
StateAfterClick(text) == IF text = "Full View" THEN 0 ELSE 1
TextAfterClick(text) == IF text = "Full View" THEN "Simplify" ELSE "Full View"

\* a click on the button: the toggle, then removeOrbits
AnimClick ==
    /\ animStage = "built"
    /\ detachedFades < MaxFades
    /\ visState' = StateAfterClick(buttonText)
    /\ buttonText' = TextAfterClick(buttonText)
    /\ IF orbitKeys = {}
       THEN UpdateVis(animWidth, animHeight, scaleRange, globeRadius,
                      StateAfterClick(buttonText), {}, FALSE, detachedFades, {})
       ELSE /\ orbitsFading' = TRUE
            /\ UNCHANGED <<orbitTag, orbitKeys, orbitGeometry, detachedFades, satelliteData,
                           satelliteElements, satelliteAnimationTimer, animTimers>>
    /\ UNCHANGED <<animStage, animRows, bySemiMajor, animWidth, animHeight, scaleRange,
                   globeRadius, animFrames>>
    /\ UNCHANGED <<prepVars, playVars, govVars, congVars, domVars, donutVars>>

\* the last element of a selection of orbit elements
LastKey(keys) == CHOOSE k \in keys : \A j \in keys : j <= k

\* the end of the oldest fade-out under way.  The elements of a fade-out
\* that left the document end it all the same; those still in it are removed
\* one by one as they end, and updateVis runs on the end of the last one,
\* before that one is removed
AnimFadeEnd ==
    /\ animStage = "built"
    /\ IF detachedFades > 0
       THEN UpdateVis(animWidth, animHeight, scaleRange, globeRadius, visState,
                      orbitKeys, orbitsFading, detachedFades - 1, {})
       ELSE /\ orbitsFading
            /\ UpdateVis(animWidth, animHeight, scaleRange, globeRadius, visState,
                         {LastKey(orbitKeys)}, FALSE, 0, {LastKey(orbitKeys)})
    /\ UNCHANGED <<animStage, animRows, bySemiMajor, animWidth, animHeight, scaleRange,
                   globeRadius, visState, buttonText, animFrames>>
    /\ UNCHANGED <<prepVars, playVars, govVars, congVars, domVars, donutVars>>

\* resize, the box of the host being bw by bh; only the class that derives
\* the speed from the power registers it
AnimResize(bw, bh) ==
    /\ animStage = "built"
    /\ ~bySemiMajor
    /\ animWidth' = Floor320(bw)
    /\ animHeight' = Floor320(bh)
    /\ globeRadius' = GlobeRadius(bySemiMajor, Floor320(bh))
    /\ UNCHANGED scaleRange
    /\ UpdateVis(Floor320(bw), Floor320(bh), scaleRange,
                 GlobeRadius(bySemiMajor, Floor320(bh)),
                 visState, orbitKeys, orbitsFading, detachedFades, {})
    /\ UNCHANGED <<animStage, animRows, bySemiMajor, visState, buttonText, animFrames>>
    /\ UNCHANGED <<prepVars, playVars, govVars, congVars, domVars, donutVars>>

\* a frame of the d3.timer t of animateSatellites
AnimTick(t) ==
    /\ animStage = "built"
    /\ t \in animTimers
    /\ animFrames < MaxFrames
    /\ animFrames' = animFrames + 1
    /\ satelliteData' = [k \in 1..Len(satelliteData) |-> Advanced(satelliteData[k])]
    /\ UNCHANGED <<animStage, animRows, bySemiMajor, animWidth, animHeight, scaleRange,
                   globeRadius, visState, buttonText, orbitTag, orbitKeys, orbitGeometry,
                   orbitsFading, detachedFades, satelliteElements, satelliteAnimationTimer,
                   animTimers>>
    /\ UNCHANGED <<prepVars, playVars, govVars, congVars, domVars, donutVars>>

\* the rows of the animated data
AnimRow(cls, pe, ap, power) ==
    [class_of_orbit |-> cls, perigee |-> pe, apogee |-> ap, power |-> power]
AnimMaster ==
    << AnimRow(Elliptical, 0, 1, 500), AnimRow(LEO, 0, 2, 600),
       AnimRow(LEO, 0, 0, 0), AnimRow(Elliptical, 0, 0, 100) >>
\* the files of at most n consecutive rows of AnimMaster
AnimFiles(n) ==
    { SubSeq(AnimMaster, w[1] + 1, w[2]) :
        w \in { v \in (0..Len(AnimMaster)) \X (0..Len(AnimMaster)) : v[2] - v[1] <= n } }

\* the arrays of at most n rows of U
RowsUpTo(U, n) == UNION {[1..k -> U] : k \in 0..n}

(***************************************************************************)
(* Specifications.  The constructor of each chart runs to completion: the  *)
(* steps of one never interleave with the steps of the other.              *)
(***************************************************************************)
InitAnim(rows, distance) ==
    /\ animRows = rows
    /\ bySemiMajor = distance
    /\ animStage = "new"
    /\ animWidth = 0
    /\ animHeight = 0
    /\ scaleRange = RatZero
    /\ globeRadius = RatZero
    /\ visState = 0
    /\ buttonText = ""
    /\ orbitTag = "ellipse"
    /\ orbitKeys = {}
    /\ orbitGeometry = <<>>
    /\ orbitsFading = FALSE
    /\ detachedFades = 0
    /\ satelliteData = <<>>
    /\ satelliteElements = 0
    /\ satelliteAnimationTimer = 0
    /\ animTimers = {}
    /\ animFrames = 0

InitRest(rows, govRows, orbitRows, domRows, donutRows, loop) ==
    /\ donutRaw = donutRows
    /\ donutBuilt = FALSE
    /\ donutLoop = loop
    /\ donutEvents = <<>>
    /\ donutI = 0
    /\ donutSites = EmptyMap
    /\ donutTimer = 0
    /\ donutLive = {}
    /\ donutTicks = 0
    /\ domRaw = domRows
    /\ dstage = "new"
    /\ domYears = <<>>
    /\ vehicleData = <<>>
    /\ selectedVehicle = NoVehicle
    /\ displayData = <<>>
    /\ sidebarVehicle = NoVehicle
    /\ launches = orbitRows
    /\ cstage = "csv"
    /\ congData = <<>>
    /\ width = 0
    /\ height = 0
    /\ ellipses = <<>>
    /\ launchesRaw = rows
    /\ pc = "rows"
    /\ ri = 0
    /\ yi = 0
    /\ events = <<>>
    /\ allTimeStats = EmptyMap
    /\ siteYearly = EmptyMap
    /\ years = <<>>
    /\ eventsByYear = EmptyMap
    /\ cumulative = EmptyMap
    /\ cumulativeByYear = EmptyMap
    /\ snapshotObjects = EmptyMap
    /\ currentYearIndex = 0
    /\ isPlaying = FALSE
    /\ playbackTimer = 0
    /\ liveTimers = {}
    /\ overlay = FALSE
    /\ sliderValue = 0
    /\ yearLabel = NoYear
    /\ rendered = NoYear
    /\ rawData = govRows
    /\ gi = 0
    /\ yearly = EmptyMap
    /\ data = <<>>
    /\ gdone = FALSE

InitOf(rows, govRows, orbitRows, domRows, donutRows, loop) ==
    /\ InitRest(rows, govRows, orbitRows, domRows, donutRows, loop)
    /\ InitAnim(<<>>, FALSE)

InitAll(rows, govRows, orbitRows, domRows) ==
    InitOf(rows, govRows, orbitRows, domRows, <<>>, FALSE)

InitCharts(rows, govRows, orbitRows) == InitAll(rows, govRows, orbitRows, <<>>)

InitState(rows, govRows) == InitCharts(rows, govRows, <<>>)

\* the launch-site map built on the rows of LaunchRows
Init == \E rows \in RowsUpTo(LaunchRows, MaxRows) : InitState(rows, <<>>)

Construct == PrepRow \/ PrepSort \/ PrepYear \/ PrepFinish \/ BuildControls

Next == Construct

Spec == Init /\ [][Next]_vars

\* the launch-site map built on the rows of SiteRows
InitSites == \E rows \in RowsUpTo(SiteRows, MaxRows) : InitState(rows, <<>>)

SpecSites == InitSites /\ [][Next]_vars

\* the launch-site map built on the rows of BaikonurRows
InitBaikonur == \E rows \in RowsUpTo(BaikonurRows, MaxRows) : InitState(rows, <<>>)

SpecBaikonur == InitBaikonur /\ [][Next]_vars

\* the event-per-tick map built on the rows of DonutRows, with or without
\* the loop option, and its interval
InitDonut ==
    \E rows \in RowsUpTo(DonutRows, MaxRows) : \E loop \in BOOLEAN :
        InitOf(<<>>, <<>>, <<>>, <<>>, rows, loop)

NextDonut ==
    \/ DonutConstruct
    \/ \E t \in donutLive : DonutTick(t)

SpecDonut == InitDonut /\ [][NextDonut]_vars

\* the same on the rows of CategoryRows
InitCategory ==
    \E rows \in RowsUpTo(CategoryRows, MaxRows) : \E loop \in BOOLEAN :
        InitOf(<<>>, <<>>, <<>>, <<>>, rows, loop)

SpecCategory == InitCategory /\ [][NextDonut]_vars

\* the launch-site map built on the rows of LabelRows
InitLabels == \E rows \in RowsUpTo(LabelRows, MaxRows) : InitState(rows, <<>>)

SpecLabels == InitLabels /\ [][Next]_vars

\* the government-vs-commercial chart built on the rows of GovRows
InitGov == \E govRows \in RowsUpTo(GovRows, MaxGovRows) : InitState(<<>>, govRows)

ProcessData == GovRow \/ GovFinish

NextGov == ProcessData

SpecGov == InitGov /\ [][NextGov]_vars

\* both charts built on the same rows of DateRows, one constructor after
\* the other, in either order
InitDrop == \E rows \in RowsUpTo(DateRows, MaxRows) : InitState(rows, rows)

MapIdle == (pc = "rows" /\ ri = 0) \/ pc = "ready"
GovIdle == gi = 0 \/ gdone

NextDrop ==
    \/ GovIdle /\ Construct
    \/ MapIdle /\ ProcessData

SpecDrop == InitDrop /\ [][NextDrop]_vars

\* the launch-site map built on the rows of PlayRows, then driven by its
\* controls and its interval
InitPlay == \E rows \in RowsUpTo(PlayRows, MaxRows) : InitState(rows, <<>>)

\* the positions a user may ask the slider for
SeekPositions == (0 - 1)..(MaxRows + 1)

Seek == \E v \in SeekPositions : SliderInput(v)
TimerFires == \E t \in liveTimers : Tick(t)

NextPlay ==
    \/ Construct
    \/ OverlayClick
    \/ TogglePlay
    \/ StepForward
    \/ StepBackward
    \/ Seek
    \/ TimerFires

SpecPlay == InitPlay /\ [][NextPlay]_vars

\* the same with no user input while playing; a live interval keeps firing
UserInput == OverlayClick \/ TogglePlay \/ StepForward \/ StepBackward \/ Seek

NextAutoPlay ==
    \/ Construct
    \/ ~isPlaying /\ UserInput
    \/ TimerFires

SpecAutoPlay == InitPlay /\ [][NextAutoPlay]_vars /\ WF_vars(TimerFires)

\* the orbit chart loaded from the rows of OrbitRows, then resized
InitCongestion ==
    \E orbitRows \in RowsUpTo(OrbitRows, MaxOrbitRows) : InitCharts(<<>>, <<>>, orbitRows)

NextCongestion ==
    \/ CoerceRows
    \/ \E bw, bh \in BoxSizes : LoadCongestion(bw, bh)
    \/ \E bw, bh \in ResizedBoxSizes : Resize(bw, bh)

SpecCongestion == InitCongestion /\ [][NextCongestion]_vars

\* the animated Congestion of either class, built, clicked, resized and run
InitAnimation ==
    \E rows \in AnimFiles(MaxOrbitRows) : \E distance \in BOOLEAN :
        /\ InitRest(<<>>, <<>>, <<>>, <<>>, <<>>, FALSE)
        /\ InitAnim(rows, distance)

NextAnimation ==
    \/ \E box \in AnimBoxes : AnimConstruct(box[1], box[2])
    \/ AnimClick
    \/ AnimFadeEnd
    \/ \E box \in AnimResizedBoxes : AnimResize(box[1], box[2])
    \/ \E t \in animTimers : AnimTick(t)

SpecAnimation == InitAnimation /\ [][NextAnimation]_vars

\* the line chart built on a file of DomFiles, then clicked
InitDominance == \E domRows \in DomFiles : InitAll(<<>>, <<>>, <<>>, domRows)

NextDominance ==
    \/ DomConstruct
    \/ \E k \in 1..TopVehicles : ClickLegend(k)
    \/ \E k \in 1..TopVehicles : ClickLine(k)
    \/ ClickBackground

SpecDominance == InitDominance /\ [][NextDominance]_vars


(***************************************************************************)
(* Properties of _prepLaunchEvents (specification Spec).                   *)
(* The retained events are the rows the row loop did not drop.             *)
(***************************************************************************)
PrepDone == pc \in {"controls", "ready"}

RetainedRows == {i \in 1..Len(launchesRaw) : ~RowEventOf[launchesRaw[i]].drop}
KeyOfRow(i) == RowEventOf[launchesRaw[i]].key
YearOfRow(i) == RowEventOf[launchesRaw[i]].year
ClassOfRow(i) == RowEventOf[launchesRaw[i]].ownerClass

RetainedKeys == {KeyOfRow(i) : i \in RetainedRows}
RetainedYears == {YearOfRow(i) : i \in RetainedRows}

\* the number of retained events of site k with a year in (lo, hi]
RetainedBetween(k, lo, hi) ==
    Cardinality({i \in RetainedRows : KeyOfRow(i) = k /\ lo < YearOfRow(i) /\ YearOfRow(i) <= hi})
\* ... with a year <= hi
RetainedUpTo(k, hi) ==
    Cardinality({i \in RetainedRows : KeyOfRow(i) = k /\ YearOfRow(i) <= hi})
\* ... of ownership class c with a year <= hi
ClassUpTo(k, c, hi) ==
    Cardinality({i \in RetainedRows : KeyOfRow(i) = k /\ ClassOfRow(i) = c /\ YearOfRow(i) <= hi})
\* ... over all years
RetainedTotal(k) == Cardinality({i \in RetainedRows : KeyOfRow(i) = k})
ClassTotal(k, c) == Cardinality({i \in RetainedRows : KeyOfRow(i) = k /\ ClassOfRow(i) = c})

SnapshotYears == DOMAIN cumulativeByYear

\* C1: for years y1 < y2 of the time axis and a site k of snapshot(y1), k is
\* in snapshot(y2), its count has not decreased, and the difference is the
\* number of retained events of k with a year in (y1, y2].
C1_MonotonicCumulation ==
    PrepDone =>
        \A a, b \in 1..Len(years) :
            (years[a] < years[b] /\ years[a] \in SnapshotYears) =>
                /\ years[b] \in SnapshotYears
                /\ \A k \in DOMAIN cumulativeByYear[years[a]] :
                      /\ k \in DOMAIN cumulativeByYear[years[b]]
                      /\ cumulativeByYear[years[b]][k].count >= cumulativeByYear[years[a]][k].count
                      /\ cumulativeByYear[years[b]][k].count - cumulativeByYear[years[a]][k].count
                            = RetainedBetween(k, years[a], years[b])

\* a site whose count grows between two snapshots
C1_Witness ==
    /\ pc = "ready"
    /\ \E y1, y2 \in SnapshotYears :
          /\ y1 < y2
          /\ \E k \in DOMAIN cumulativeByYear[y1] :
                /\ k \in DOMAIN cumulativeByYear[y2]
                /\ cumulativeByYear[y2][k].count > cumulativeByYear[y1][k].count

\* C2: the years with a snapshot are exactly the distinct years of the
\* retained events, the time axis lists each once, and in the snapshot of
\* year y a site is present exactly when it has a retained event with a year
\* <= y, its count being the number of those events.
C2_SnapshotPerYear ==
    PrepDone =>
        /\ SnapshotYears = RetainedYears
        /\ {years[a] : a \in 1..Len(years)} = RetainedYears
        /\ Len(years) = Cardinality(RetainedYears)
        /\ \A y \in SnapshotYears :
              /\ DOMAIN cumulativeByYear[y] = {k \in RetainedKeys : RetainedUpTo(k, y) > 0}
              /\ \A k \in DOMAIN cumulativeByYear[y] :
                    cumulativeByYear[y][k].count = RetainedUpTo(k, y)

\* a site absent from an earlier snapshot and counted twice in a later one
C2_Witness ==
    /\ pc = "ready"
    /\ \E y1, y2 \in SnapshotYears :
          /\ y1 < y2
          /\ \E k \in DOMAIN cumulativeByYear[y2] :
                /\ k \notin DOMAIN cumulativeByYear[y1]
                /\ cumulativeByYear[y2][k].count = 2

\* C3, as claimed: the government and commercial counts stored in the
\* snapshot of year y are the numbers of retained events of that class with
\* a year <= y.
C3_CategoryCountsCumulative ==
    PrepDone =>
        \A y \in SnapshotYears : \A k \in DOMAIN cumulativeByYear[y] :
            /\ cumulativeByYear[y][k].govTotal = ClassUpTo(k, "government", y)
            /\ cumulativeByYear[y][k].commTotal = ClassUpTo(k, "commercial", y)

\* C3, amended: the government and commercial counts stored in the snapshot
\* of year y are the numbers of retained events of that class over all
\* years, whatever y is.
C3_CategoryCountsAllTime ==
    PrepDone =>
        \A y \in SnapshotYears : \A k \in DOMAIN cumulativeByYear[y] :
            /\ cumulativeByYear[y][k].govTotal = ClassTotal(k, "government")
            /\ cumulativeByYear[y][k].commTotal = ClassTotal(k, "commercial")

\* a snapshot that stores a class count its year has not reached yet
C3_Witness ==
    /\ pc = "ready"
    /\ \E y \in SnapshotYears : \E k \in DOMAIN cumulativeByYear[y] :
          /\ cumulativeByYear[y][k].commTotal > ClassUpTo(k, "commercial", y)
          /\ cumulativeByYear[y][k].govTotal = ClassUpTo(k, "government", y)
          /\ cumulativeByYear[y][k].govTotal > 0

\* C4: the all-time aggregate of a site counts all its retained events (in
\* total and per class), every snapshot that holds the site carries these
\* values, and the total is the site's count in the snapshot of the last
\* year.
C4_AllTimeAggregate ==
    PrepDone =>
        /\ DOMAIN allTimeStats = RetainedKeys
        /\ \A k \in DOMAIN allTimeStats :
              /\ allTimeStats[k].total = RetainedTotal(k)
              /\ allTimeStats[k].govTotal = ClassTotal(k, "government")
              /\ allTimeStats[k].commTotal = ClassTotal(k, "commercial")
              /\ \A y \in SnapshotYears :
                    k \in DOMAIN cumulativeByYear[y] =>
                        /\ cumulativeByYear[y][k].totalAllYears = allTimeStats[k].total
                        /\ cumulativeByYear[y][k].govTotal = allTimeStats[k].govTotal
                        /\ cumulativeByYear[y][k].commTotal = allTimeStats[k].commTotal
              /\ Len(years) > 0
              /\ years[Len(years)] \in SnapshotYears
              /\ k \in DOMAIN cumulativeByYear[years[Len(years)]]
              /\ cumulativeByYear[years[Len(years)]][k].count = allTimeStats[k].total

\* a site held by two snapshots, the earlier with a count below the total
C4_Witness ==
    /\ pc = "ready"
    /\ \E y1, y2 \in SnapshotYears :
          /\ y1 < y2
          /\ \E k \in DOMAIN cumulativeByYear[y1] :
                /\ cumulativeByYear[y1][k].count < cumulativeByYear[y1][k].totalAllYears
                /\ cumulativeByYear[y2][k].count = cumulativeByYear[y2][k].totalAllYears
                /\ cumulativeByYear[y1][k].totalAllYears = cumulativeByYear[y2][k].totalAllYears


(***************************************************************************)
(* Properties of the row filter (specifications SpecGov and SpecDrop).     *)
(***************************************************************************)
\* the counters of year y in a yearly table, 0 where the year has no entry
GovCount(m, y) == IF y \in DOMAIN m THEN m[y].government ELSE 0
ComCount(m, y) == IF y \in DOMAIN m THEN m[y].commercial ELSE 0
YearsOfTables == DOMAIN yearly \cup DOMAIN yearly'

\* the row the callback is applied to in a GovRow step, its year and tokens
GovYearOf == [d \in GovRows \cup DateRows |-> gvcParseDate(FirstTruthy(d, GovDateKeys, 1))]
GovTokensOf == [d \in GovRows \cup DateRows |-> OwnerTokens(FirstTruthy(d, GovOwnerKeys, 1))]
GovTokenRows == {d \in GovRows \cup DateRows : \E i \in 1..Len(GovTokensOf[d]) : TestGov(GovTokensOf[d][i])}
ComTokenRows == {d \in GovRows \cup DateRows : \E i \in 1..Len(GovTokensOf[d]) : TestCom(GovTokensOf[d][i])}
GovRowNow == rawData[gi + 1]
GovYearNow == GovYearOf[GovRowNow]
GovTokensNow == GovTokensOf[GovRowNow]
SomeGovToken == GovRowNow \in GovTokenRows
SomeComToken == GovRowNow \in ComTokenRows

\* the step adds 1 to both counters of year y and touches no other year
AddsToBoth(y) ==
    /\ GovCount(yearly', y) = GovCount(yearly, y) + 1
    /\ ComCount(yearly', y) = ComCount(yearly, y) + 1
    /\ \A z \in YearsOfTables \ {y} :
          GovCount(yearly', z) = GovCount(yearly, z) /\ ComCount(yearly', z) = ComCount(yearly, z)
\* the step adds 1 to at most one counter of at most one year
AddsToAtMostOne ==
    \E y \in YearsOfTables \cup {NoYear} :
        /\ <<GovCount(yearly', y) - GovCount(yearly, y), ComCount(yearly', y) - ComCount(yearly, y)>>
              \in {<<0, 0>>, <<1, 0>>, <<0, 1>>}
        /\ \A z \in YearsOfTables \ {y} :
              GovCount(yearly', z) = GovCount(yearly, z) /\ ComCount(yearly', z) = ComCount(yearly, z)

\* C6, as claimed: a row with a year whose tokens hold one that matches
\* /gov/i and one that matches /com/i adds 1 to both counters of the year;
\* every other row adds 1 to at most one counter.
C6_DualAttribution ==
    [][gi' = gi + 1 =>
          IF GovYearNow # NoYear /\ SomeGovToken /\ SomeComToken
          THEN AddsToBoth(GovYearNow)
          ELSE AddsToAtMostOne]_vars

\* C6, amended: a row with a year other than 0 and at least two tokens, one
\* of which matches /gov/i and one of which matches /com/i, adds 1 to both
\* counters of the year; every other row adds 1 to at most one counter.
C6_DualAttributionOfSeveralTokens ==
    [][gi' = gi + 1 =>
          IF /\ GovYearNow # NoYear /\ GovYearNow # 0
             /\ Len(GovTokensNow) >= 2
             /\ SomeGovToken /\ SomeComToken
          THEN AddsToBoth(GovYearNow)
          ELSE AddsToAtMostOne]_vars

\* a two-token row counted twice and a one-token row matching both patterns
\* counted nowhere, in one year
C6_Witness ==
    /\ gdone
    /\ Len(rawData) = 2
    /\ rawData[1] = GovRecord(Date2016, GovSlashCom)
    /\ rawData[2] = GovRecord(Date2016, GovDashCom)
    /\ Len(data) = 1
    /\ data[1].year = 2016 /\ data[1].government = 1 /\ data[1].commercial = 1

\* a row has no date for a chart: every key the chart reads is absent, null
\* or empty, or the first value found is not a date
NotADate == {DateNA, Blank}
NoDateUnder(d, keys) ==
    \/ \A k \in 1..Len(keys) : Field(d, keys[k]) \in {Undefined, Null, EmptyStr}
    \/ \E k \in 1..Len(keys) :
          /\ Field(d, keys[k]) \in NotADate
          /\ \A o \in 1..(k - 1) : Field(d, keys[o]) \in {Undefined, Null, EmptyStr}

RowsWithDate == {i \in 1..Len(launchesRaw) : ~NoDateUnder(launchesRaw[i], DateKeys)}

\* C7: a row without a date leaves the events, the all-time totals, the
\* per-site per-year table and the government/commercial counters as they
\* are; the time axis and the snapshots, built from the events, hold no
\* year and no count of such a row.
C7_DroppedWithoutDate ==
    [][/\ (pc = "rows" /\ ri' = ri + 1 /\ NoDateUnder(launchesRaw[ri + 1], DateKeys)) =>
             /\ events' = events
             /\ allTimeStats' = allTimeStats
             /\ siteYearly' = siteYearly
       /\ (gi' = gi + 1 /\ NoDateUnder(rawData[gi + 1], GovDateKeys)) =>
             yearly' = yearly
       /\ PrepDone' =>
             /\ Len(events') <= Cardinality(RowsWithDate)
             /\ \A a \in 1..Len(years') : \E e \in 1..Len(events') : events'[e].year = years'[a]
             /\ \A y \in DOMAIN cumulativeByYear' :
                   /\ \E a \in 1..Len(years') : years'[a] = y
                   /\ \A k \in DOMAIN cumulativeByYear'[y] :
                         cumulativeByYear'[y][k].count
                            = Cardinality({e \in 1..Len(events') :
                                              events'[e].key = k /\ events'[e].year <= y})]_vars

\* both charts built on three rows, one without a date: two events, two
\* counted launches
C7_Witness ==
    /\ pc = "ready" /\ gdone
    /\ Len(launchesRaw) = 3
    /\ Cardinality(RowsWithDate) = 2
    /\ \E i \in 1..3 : NoDateUnder(rawData[i], GovDateKeys)
    /\ Len(events) = 2
    /\ Len(data) = 2
    /\ \A a \in 1..2 : data[a].government = 1 /\ data[a].commercial = 0

(***************************************************************************)
(* Properties of the site resolution (specification SpecSites).            *)
(***************************************************************************)
\* the label of a row, and the dictionary rules whose pattern it matches
LabelOf(r) == OrElse(pick(r, SiteNameKeys), EmptyStr)
MatchedRulesOf ==
    [r \in InputRows |-> {q \in 1..Len(siteDict) : RuleTest(siteDict[q], LabelOf(r))}]
MatchedRules(i) == MatchedRulesOf[launchesRaw[i]]
FirstMatched(i) == CHOOSE q \in MatchedRules(i) : \A p \in MatchedRules(i) : q <= p

\* the coordinate fields of a row as numbers
LatOf(i) == ToNumber(pick(launchesRaw[i], LatKeys))
LonOf(i) == ToNumber(pick(launchesRaw[i], LonKeys))
\* both coordinate fields coerce to a number
CoercesCoords(i) == ~isNaN(LatOf(i)) /\ ~isNaN(LonOf(i))
\* a coordinate field is written as a number: it coerces, and is not blank
IsNumberText(v) == ~IsNullish(v) /\ trim(v) # EmptyStr /\ ~isNaN(ToNumber(v))
WritesCoords(i) ==
    /\ IsNumberText(pick(launchesRaw[i], LatKeys))
    /\ IsNumberText(pick(launchesRaw[i], LonKeys))
SameCoords(i, j) ==
    /\ CoercesCoords(i) /\ CoercesCoords(j)
    /\ LatOf(i) = LatOf(j) /\ LonOf(i) = LonOf(j)

\* two retained rows share a key and the aggregate under it counts both
SharedAggregate(i, j) ==
    /\ KeyOfRow(i) = KeyOfRow(j)
    /\ KeyOfRow(i) \in DOMAIN allTimeStats
    /\ allTimeStats[KeyOfRow(i)].total = RetainedTotal(KeyOfRow(i))
    /\ allTimeStats[KeyOfRow(i)].total >= Cardinality({i, j})

\* C5, as claimed: two retained rows resolve to the same key and feed the
\* same aggregate when they carry the same coordinates or their labels match
\* the same dictionary rule.
C5_SameRuleSameKey ==
    PrepDone =>
        \A i, j \in RetainedRows :
            (SameCoords(i, j) \/ MatchedRules(i) \cap MatchedRules(j) # {}) =>
                SharedAggregate(i, j)

\* C5, amended: two retained rows resolve to the same key and feed the same
\* aggregate when they carry the same coordinates, or when each has a
\* coordinate field that does not coerce to a number and the first rule of
\* the dictionary that matches the label is the same for both.
C5_SameFirstRuleSameKey ==
    PrepDone =>
        \A i, j \in RetainedRows :
            (\/ SameCoords(i, j)
             \/ /\ ~CoercesCoords(i) /\ ~CoercesCoords(j)
                /\ MatchedRules(i) # {} /\ MatchedRules(j) # {}
                /\ FirstMatched(i) = FirstMatched(j)) =>
                SharedAggregate(i, j)

\* two rows of one rule, one of them with half its coordinates, under one
\* aggregate, and a third row of that rule under its own coordinates
C5_Witness ==
    /\ pc = "ready"
    /\ \E i, j, m \in RetainedRows :
          /\ i # j
          /\ ~CoercesCoords(i) /\ ~CoercesCoords(j)
          /\ ~isNaN(LatOf(i))
          /\ FirstMatched(i) = FirstMatched(j)
          /\ SharedAggregate(i, j)
          /\ CoercesCoords(m)
          /\ MatchedRules(m) \cap MatchedRules(i) # {}
          /\ KeyOfRow(m) # KeyOfRow(i)

\* C8, as claimed: a row with no latitude and longitude written as numbers
\* and a label that matches no rule of the dictionary adds no event and no
\* aggregate.
C8_UnresolvableDropped ==
    [][(pc = "rows" /\ ri' = ri + 1
        /\ ~WritesCoords(ri + 1) /\ MatchedRules(ri + 1) = {}) =>
            /\ events' = events
            /\ allTimeStats' = allTimeStats
            /\ siteYearly' = siteYearly]_vars

(***************************************************************************)
(* Properties of the playback (specifications SpecPlay and SpecAutoPlay).  *)
(***************************************************************************)
LastIndex == Len(years) - 1
\* v brought into 0..LastIndex
ClampIndex(v) == IF v < 0 THEN 0 ELSE IF v > LastIndex THEN LastIndex ELSE v

\* what C9 says of a step of the controls
IndexStaysWithinYears ==
    /\ pc' = "ready" => (0 <= currentYearIndex' /\ currentYearIndex' <= LastIndex)
    /\ (StepForward /\ currentYearIndex = LastIndex) => currentYearIndex' = currentYearIndex
    /\ (StepBackward /\ currentYearIndex = 0) => currentYearIndex' = currentYearIndex
    /\ \A v \in SeekPositions : SliderInput(v) => currentYearIndex' = ClampIndex(v)

\* C9, as claimed: on any dataset the index stays within 0..years.length-1,
\* stepForward at the last index and stepBackward at 0 leave it unchanged,
\* and a seek out of the range is clamped into it.
C9_IndexWithinYearsOnAnyDataset == [][IndexStaysWithinYears]_vars

\* C9, amended: on a dataset with at least one retained event the index
\* stays within 0..years.length-1, stepForward at the last index and
\* stepBackward at 0 leave it unchanged, and a seek out of the range is
\* clamped into it.
C9_IndexWithinYears == [][Len(years') > 0 => IndexStaysWithinYears]_vars

\* three years, the index back at 0 after playback was started and paused
C9_Witness ==
    /\ pc = "ready"
    /\ Len(years) = 3
    /\ ~overlay
    /\ ~isPlaying
    /\ playbackTimer # 0
    /\ currentYearIndex = 0
    /\ sliderValue = 0
    /\ yearLabel = years[1]
    /\ rendered = years[1]

\* C10: a tick while playing moves the index up by one and keeps playing,
\* or, at the last year, stops playback (isPlaying false, interval cleared)
\* and leaves the index; no tick lowers the index; and with no user input
\* playback that has started comes to that stop.
C10_PlaybackRunsToLastYear ==
    /\ [][TimerFires =>
            /\ currentYearIndex' >= currentYearIndex
            /\ IF currentYearIndex < LastIndex
               THEN /\ currentYearIndex' = currentYearIndex + 1
                    /\ isPlaying' = isPlaying
                    /\ liveTimers' = liveTimers
               ELSE /\ currentYearIndex' = currentYearIndex
                    /\ ~isPlaying'
                    /\ liveTimers' = {}
                    /\ Len(years) > 0 => currentYearIndex' = LastIndex]_vars
    /\ (pc = "ready" /\ isPlaying) ~>
          (/\ ~isPlaying
           /\ liveTimers = {}
           /\ Len(years) > 0 => currentYearIndex = LastIndex)

\* playback over three years has run from the first to the last and stopped
C10_Witness ==
    /\ pc = "ready"
    /\ Len(years) = 3
    /\ ~overlay
    /\ ~isPlaying
    /\ playbackTimer # 0
    /\ liveTimers = {}
    /\ currentYearIndex = 2
    /\ rendered = years[3]

\* what holds of the playback state and its interval after every step
OneIntervalWhilePlaying ==
    /\ isPlaying' \in BOOLEAN
    /\ Cardinality(liveTimers') <= 1
    /\ (liveTimers' # {}) <=> isPlaying'
    /\ isPlaying' => liveTimers' = {playbackTimer'}
    /\ ((TogglePlay \/ OverlayClick) /\ ~isPlaying) => isPlaying'
    /\ (TogglePlay /\ isPlaying) => ~isPlaying'

\* C11, as claimed: play moves Stopped to Playing, play while Playing
\* changes nothing, pause moves Playing to Stopped, and at most one interval
\* is live, one exactly when isPlaying.
C11_PlayWhilePlayingIsNoOp ==
    [][/\ OneIntervalWhilePlaying
       /\ (OverlayClick /\ isPlaying) =>
             UNCHANGED <<isPlaying, playbackTimer, liveTimers>>]_vars

\* C11, amended: play moves Stopped to Playing, play while Playing stays
\* Playing but clears the interval and starts another, pause moves Playing
\* to Stopped, and at most one interval is live, one exactly when isPlaying.
C11_PlayWhilePlayingRestartsInterval ==
    [][/\ OneIntervalWhilePlaying
       /\ (OverlayClick /\ isPlaying) =>
             /\ isPlaying'
             /\ playbackTimer' # playbackTimer
             /\ playbackTimer \notin liveTimers'
             /\ liveTimers' = {playbackTimer'}]_vars

\* playing on the second interval the map has started
C11_Witness ==
    /\ pc = "ready"
    /\ isPlaying
    /\ playbackTimer = 2
    /\ liveTimers = {2}

(***************************************************************************)
(* Properties of the orbit chart (specification SpecCongestion).           *)
(***************************************************************************)
Drawn == cstage = "drawn"
OrbitIndexes == 1..Len(ellipses)
\* the scaled apogee and perigee of row i under the scale in force
ScaledApogee(i) == Scale(congData, width, height, congData[i]["apogee_(km)"].v)
ScaledPerigee(i) == Scale(congData, width, height, congData[i]["perigee_(km)"].v)
NonNegative(x) == RatLeq(RatZero, x)
RatSquare(x) == RatMul(x, x)

\* C12: for non-negative scaled perigee and apogee, in either order, the
\* semi-major axis is (ap + pe)/2, the square of the semi-minor axis is
\* a^2 - c^2 = ap*pe, and 0 <= semiMinor <= semiMajor.
C12_EllipseValid ==
    Drawn =>
        \A i \in OrbitIndexes :
            (NonNegative(ScaledApogee(i)) /\ NonNegative(ScaledPerigee(i))) =>
                /\ RatAdd(ellipses[i].rx, ellipses[i].rx) = RatAdd(ScaledApogee(i), ScaledPerigee(i))
                /\ ellipses[i].rySquared = RatMul(ScaledApogee(i), ScaledPerigee(i))
                /\ NonNegative(ellipses[i].rySquared)
                /\ NonNegative(ellipses[i].rx)
                /\ RatLeq(ellipses[i].rySquared, RatSquare(ellipses[i].rx))

\* an ellipse narrower than long with the perigee below the apogee, after a
\* resize, next to one with the apogee below the perigee
C12_Witness ==
    /\ Drawn
    /\ width = 500
    /\ \E i, j \in OrbitIndexes :
          /\ RatLess(RatZero, ScaledPerigee(i))
          /\ RatLess(ScaledPerigee(i), ScaledApogee(i))
          /\ RatLess(RatZero, ellipses[i].rySquared)
          /\ RatLess(ellipses[i].rySquared, RatSquare(ellipses[i].rx))
          /\ RatLess(ScaledApogee(j), ScaledPerigee(j))
          /\ RatLess(ellipses[j].rySquared, RatSquare(ellipses[j].rx))

\* rows i and j of the file differ in the apogee column only
DifferInApogeeOnly(i, j) ==
    \A f \in DOMAIN launches[i] : f # "apogee_(km)" => launches[i][f] = launches[j][f]
ApogeeOf(i) == ToNumber(launches[i]["apogee_(km)"])

\* C13: of two rows that differ in the apogee only, the one with the
\* smaller apogee gets the strictly smaller semi-major axis.
C13_SemiMajorGrowsWithApogee ==
    Drawn =>
        \A i, j \in OrbitIndexes :
            (/\ DifferInApogeeOnly(i, j)
             /\ ~isNaN(ApogeeOf(i)) /\ ~isNaN(ApogeeOf(j))
             /\ ApogeeOf(i).v < ApogeeOf(j).v) =>
                RatLess(ellipses[i].rx, ellipses[j].rx)

\* two rows of one perigee and apogees 1 and 4, drawn after a resize
C13_Witness ==
    /\ Drawn
    /\ height = 500
    /\ Len(launches) = 2
    /\ DifferInApogeeOnly(1, 2)
    /\ launches[1]["apogee_(km)"] = Km1
    /\ launches[2]["apogee_(km)"] = Km4
    /\ launches[1]["perigee_(km)"] = Km2
    /\ RatLess(ellipses[1].rx, ellipses[2].rx)

\* C14, as claimed: once the rows are loaded, an orbital field that was the
\* empty string or null in the file holds not-a-number.
C14_MissingStaysNaN ==
    Drawn =>
        \A i \in 1..Len(launches) : \A f \in OrbitFields :
            Field(launches[i], f) \in {EmptyStr, Null} => isNaN(congData[i][f])

(***************************************************************************)
(* The Baikonur example (specification SpecBaikonur).                      *)
(***************************************************************************)
\* the file holds one government launch of 2015 and two commercial
\* launches of 2016, in any order
ThreeBaikonurEvents ==
    /\ Len(launchesRaw) = 3
    /\ Cardinality({i \in 1..3 :
            launchesRaw[i] = SiteRow(BaikonurCosmodrome, Date2015, Government)}) = 1
    /\ Cardinality({i \in 1..3 :
            launchesRaw[i] = SiteRow(BaikonurCosmodrome, Date2016, Commercial)}) = 2

\* the snapshots of 2015 and 2016 hold key k with counts 1 and 3, and that
\* of 2016 two commercial launches and one government launch
BaikonurCountsUnder(k) ==
    /\ 2015 \in SnapshotYears /\ 2016 \in SnapshotYears
    /\ k \in DOMAIN cumulativeByYear[2015]
    /\ cumulativeByYear[2015][k].count = 1
    /\ k \in DOMAIN cumulativeByYear[2016]
    /\ cumulativeByYear[2016][k].count = 3
    /\ cumulativeByYear[2016][k].commTotal = 2
    /\ cumulativeByYear[2016][k].govTotal = 1

BaikonurKeyShort == <<"6","3",".","3","0","5",",","4","5",".","9","6","4">>
BaikonurKeyFixed == <<"6","3",".","3","0","5","0",",","4","5",".","9","6","4","0">>

\* C15, as claimed: the three Baikonur events are counted 1 in 2015 and 3
\* in 2016 (2 commercial, 1 government) under the key "63.305,45.964".
C15_BaikonurUnderShortKey ==
    (PrepDone /\ ThreeBaikonurEvents) => BaikonurCountsUnder(BaikonurKeyShort)

\* C15, amended: the three Baikonur events are counted 1 in 2015 and 3 in
\* 2016 (2 commercial, 1 government) under the key "63.3050,45.9640", the
\* only key of the snapshots.
C15_BaikonurUnderFixedKey ==
    (PrepDone /\ ThreeBaikonurEvents) =>
        /\ BaikonurCountsUnder(BaikonurKeyFixed)
        /\ DOMAIN cumulativeByYear[2016] = {BaikonurKeyFixed}

\* the map built on the three events
C15_Witness ==
    /\ pc = "ready"
    /\ ThreeBaikonurEvents
    /\ launchesRaw[3] = SiteRow(BaikonurCosmodrome, Date2015, Government)
    /\ years = <<2015, 2016>>
    /\ cumulativeByYear[2016][BaikonurKeyFixed].count = 3

\* the names of vehicleData, in order
TopNames == [k \in 1..Len(vehicleData) |-> vehicleData[k].vehicle]
\* no vehicle is selected and every top-8 line is drawn, after the step
NoSelectionNext == selectedVehicle' = NoVehicle /\ displayData' = TopNames
\* v is selected and only its line is drawn, after the step
OnlySelectedNext(v) == selectedVehicle' = v /\ displayData' = <<v>>
\* what a click on vehicle v has to do
ToggledNext(v) == IF selectedVehicle = v THEN NoSelectionNext ELSE OnlySelectedNext(v)

\* C16: a click on the legend item, the line or a dot of a vehicle that is
\* not selected selects it and leaves only its line drawn; a click on the
\* selected vehicle or on the background leaves no vehicle selected and all
\* top-8 lines drawn; the selected vehicle is always none or one of the top 8.
C16_ClickSelectsOneTopVehicle ==
    [][/\ \A k \in 1..TopVehicles :
            /\ ClickLegend(k) => ToggledNext(vehicleData[k].vehicle)
            /\ ClickLine(k) => ToggledNext(displayData[k])
       /\ ClickBackground => NoSelectionNext
       /\ \/ selectedVehicle' = NoVehicle
          \/ \E k \in 1..Len(vehicleData') : vehicleData'[k].vehicle = selectedVehicle'
      ]_vars

\* no snapshot holds an object of the running map or of another snapshot
NoSharedAggregate ==
    /\ \A y \in DOMAIN snapshotObjects : \A k \in DOMAIN snapshotObjects[y] :
          \A j \in DOMAIN cumulative : snapshotObjects[y][k] # RunningObject(j)
    /\ \A y1, y2 \in DOMAIN snapshotObjects :
          \A k1 \in DOMAIN snapshotObjects[y1] : \A k2 \in DOMAIN snapshotObjects[y2] :
              snapshotObjects[y1][k1] = snapshotObjects[y2][k2] => y1 = y2 /\ k1 = k2
\* every stored snapshot is the same after the step
StoredSnapshotsKept ==
    \A y \in DOMAIN cumulativeByYear :
        /\ y \in DOMAIN cumulativeByYear'
        /\ cumulativeByYear'[y] = cumulativeByYear[y]

\* C17: once the snapshot of a year is stored, applying the events of a later
\* year to the running map leaves it unchanged, and no stored snapshot shares
\* an aggregate object with the running map or with another snapshot.
C17_SnapshotsIsolated == [](NoSharedAggregate) /\ [][StoredSnapshotsKept]_vars
\* a stored snapshot of a site holds a smaller count than the running map,
\* which a later year has incremented
C17_Witness ==
    /\ yi >= 2
    /\ \E k \in DOMAIN cumulativeByYear[years[1]] :
          /\ cumulative[k].count > cumulativeByYear[years[1]][k].count
          /\ cumulativeByYear[years[2]][k].count > cumulativeByYear[years[1]][k].count

\* the index moves by a step button or the slider
StepOrSeek == StepForward \/ StepBackward \/ Seek

\* C18: while playback is stopped no tick of the interval changes
\* currentYearIndex; once the map is built, between a pause and the next play
\* the index changes only through stepForward, stepBackward or the slider;
\* and these three never change isPlaying.
C18_StoppedIndexMovesOnlyByUser ==
    [][/\ (~isPlaying /\ TimerFires) => currentYearIndex' = currentYearIndex
       /\ (pc = "ready" /\ ~isPlaying /\ ~isPlaying' /\ currentYearIndex' # currentYearIndex)
             => StepOrSeek
       /\ StepOrSeek => isPlaying' = isPlaying
      ]_vars
\* playback was started and then paused between the first and the last year
C18_Witness ==
    /\ pc = "ready"
    /\ ~isPlaying
    /\ playbackTimer # 0
    /\ liveTimers = {}
    /\ Len(years) = 3
    /\ currentYearIndex = 1

\* the label, the circles and the slider show years[currentYearIndex]
ShownAgreesWithIndex ==
    /\ yearLabel = YearAt(currentYearIndex)
    /\ rendered = YearAt(currentYearIndex)
    /\ rendered \in DOMAIN cumulativeByYear
    /\ sliderValue = currentYearIndex

\* C19 as stated: between two operations of the built map the year shown and
\* the snapshot rendered are those of years[currentYearIndex] and the slider
\* value equals currentYearIndex.
C19_ShownAgreesOnAnyDataset == pc = "ready" => ShownAgreesWithIndex

\* C19, amended: on a dataset with at least one retained event, between two
\* operations of the built map the year shown and the snapshot rendered are
\* those of years[currentYearIndex] and the slider value equals
\* currentYearIndex.
C19_ShownAgreesWithIndex == (pc = "ready" /\ Len(years) > 0) => ShownAgreesWithIndex
\* playing at the last of three years, the slider and the circles there too
C19_Witness ==
    /\ pc = "ready"
    /\ Len(years) = 3
    /\ isPlaying
    /\ currentYearIndex = 2
    /\ sliderValue = 2
    /\ yearLabel = years[3]
    /\ rendered = years[3]
    /\ ~overlay

\* the index, the slider, the label and the circles are at the first year
\* after the step
AtFirstYearNext ==
    /\ currentYearIndex' = 0
    /\ sliderValue' = SliderHolds(0)
    /\ yearLabel' = YearAt(0)

\* C20: the play button pressed while stopped at the last year index resets
\* the index to 0 and starts playing; pressed while stopped at an earlier
\* index it starts playing and leaves the index as it is.
C20_PlayRestartsAtLastYear ==
    [][(TogglePlay /\ ~isPlaying) =>
          /\ isPlaying'
          /\ playbackTimer' \in liveTimers'
          /\ currentYearIndex = LastIndex => AtFirstYearNext
          /\ currentYearIndex < LastIndex =>
                UNCHANGED <<currentYearIndex, sliderValue, yearLabel, rendered>>
      ]_vars
\* playing from the first of three years on the second interval the map
\* has started
C20_Witness ==
    /\ pc = "ready"
    /\ Len(years) = 3
    /\ ~overlay
    /\ isPlaying
    /\ playbackTimer = 2
    /\ currentYearIndex = 0
    /\ rendered = years[1]

(***************************************************************************)
(* Properties of the site dictionary (specification SpecLabels).           *)
(***************************************************************************)
\* the answer of _siteFromName for rule q
AnswerOfRule(q) ==
    [hit |-> TRUE, lon |-> siteDict[q].lon, lat |-> siteDict[q].lat,
     canonical |-> siteDict[q].name]
\* row i has a label some rule matches
RowHasRule(i) == ~Falsy(LabelOf(launchesRaw[i])) /\ MatchedRules(i) # {}
\* an aggregate of the map stands at the site of rule q, under its name
AggregateOfRule(q) ==
    \E k \in DOMAIN allTimeStats :
        /\ allTimeStats[k].lon = siteDict[q].lon
        /\ allTimeStats[k].lat = siteDict[q].lat
        /\ allTimeStats[k].siteName = siteDict[q].name

\* C21: _siteFromName returns the coordinates and the canonical name of the
\* first rule of the dictionary whose pattern matches the label, and null
\* for an empty label or one no rule matches; the rows of the map without
\* coordinates are placed accordingly.
C21_FirstRuleInDictionaryOrder ==
    /\ \A i \in 1..Len(launchesRaw) :
          siteFromName(LabelOf(launchesRaw[i])) =
              IF RowHasRule(i) THEN AnswerOfRule(FirstMatched(i)) ELSE NoSite
    /\ PrepDone =>
          /\ \A i \in 1..Len(launchesRaw) : RowHasRule(i) => AggregateOfRule(FirstMatched(i))
          /\ Len(events) = Cardinality({i \in 1..Len(launchesRaw) : RowHasRule(i)})
\* a label two rules match stands at the site of the earlier rule, a label
\* naming the later rule's site first does too, and a row without a label
\* is lost
C21_Witness ==
    /\ pc = "ready"
    /\ Len(launchesRaw) = 3
    /\ LabelOf(launchesRaw[1]) = RocketLabWallops
    /\ MatchedRules(1) = {15, 17}
    /\ LabelOf(launchesRaw[2]) = BaikonurOrKourou
    /\ MatchedRules(2) = {1, 4}
    /\ LabelOf(launchesRaw[3]) = EmptyStr
    /\ AggregateOfRule(15)
    /\ AggregateOfRule(1)
    /\ Len(events) = 2

(***************************************************************************)
(* Properties of the event-per-tick map (specifications SpecCategory and   *)
(* SpecDonut).                                                             *)
(***************************************************************************)
\* the indicators in their priority order, with the word for the military
\* one left open, and the category each stands for
Indicators(military) ==
    << [sub |-> military, category |-> "Military"],
       [sub |-> <<"g","o","v">>, category |-> "Government"],
       [sub |-> <<"c","o","m">>, category |-> "Commercial"],
       [sub |-> <<"c","i","v","i","l">>, category |-> "Civilian"],
       [sub |-> <<"r","e","s","e","a","r","c","h">>, category |-> "Civilian"],
       [sub |-> <<"u","n","i","v","e","r","s","i","t","y">>, category |-> "Civilian"] >>
\* the category of the earliest indicator that occurs in the lower-cased
\* value, Civilian when the value is missing or holds none
CategoryByPriority(raw, military) ==
    LET inds == Indicators(military)
        found == IF Falsy(raw) THEN {}
                 ELSE {k \in 1..Len(inds) : includes(toLowerCase(StringOf(raw)), inds[k].sub)}
    IN IF found = {} THEN "Civilian"
       ELSE inds[CHOOSE k \in found : \A j \in found : k <= j].category
\* the same for every users value of the model, by the word for military
ByPriorityOf ==
    [military \in {<<"m","i","l","i","t">>, <<"m","i","l","i","t","a","r","y">>} |->
        [u \in UsersValues \cup {Undefined} |-> CategoryByPriority(u, military)]]
\* the users value of the k-th row
UsersOf(k) == pick(donutRaw[k], DonutUserKeys)
\* every event carries the category its row's users value has by priority,
\* and every site counts the consumed events of each category
CategoriesByPriority(military) ==
    donutBuilt =>
        /\ Len(donutEvents) = Len(donutRaw)
        /\ \A k \in 1..Len(donutRaw) :
              donutEvents[k].category = ByPriorityOf[military][UsersOf(k)]
        /\ \A key \in DOMAIN donutSites : \A c \in DOMAIN donutSites[key].byCat :
              donutSites[key].byCat[c] =
                  Cardinality({k \in 1..donutI :
                                  ByPriorityOf[military][UsersOf(k)] = c})

\* C22 as stated: the classifier tests military, gov, com, then
\* civil/research/university and returns the category of the first that
\* occurs in the lower-cased value; a missing value or one without an
\* indicator is Civilian.
C22_PriorityFromMilitary == CategoriesByPriority(<<"m","i","l","i","t","a","r","y">>)

\* C22, amended: the classifier tests milit, gov, com, then
\* civil/research/university and returns the category of the first that
\* occurs in the lower-cased value; a missing value or one without an
\* indicator is Civilian.
C22_PriorityFromMilit == CategoriesByPriority(<<"m","i","l","i","t">>)
\* a military and government value counted as Military, a government and
\* commercial one as Government, a missing one as Civilian
C22_Witness ==
    /\ donutBuilt
    /\ donutI = 3
    /\ Len(donutRaw) = 3
    /\ UsersOf(1) = MilitaryGovernment
    /\ UsersOf(2) = GovSlashCom
    /\ UsersOf(3) = Undefined
    /\ \E key \in DOMAIN donutSites :
          donutSites[key].byCat =
              [c \in {"Government", "Military", "Commercial", "Civilian"} |->
                  IF c = "Commercial" THEN 0 ELSE 1]

(***************************************************************************)
(* The degenerate ellipse (specification SpecCongestion).                  *)
(***************************************************************************)
\* C23: an orbit whose scaled apogee and scaled perigee are both 0 is drawn
\* with a semi-minor axis clamped to a positive constant, never with 0.
C23_DegenerateClampedPositive ==
    Drawn =>
        \A i \in OrbitIndexes :
            (ScaledApogee(i) = RatZero /\ ScaledPerigee(i) = RatZero) =>
                RatLess(RatZero, ellipses[i].rySquared)


(***************************************************************************)
(* The animated Congestion (specification SpecAnimation).                  *)
(***************************************************************************)
AnimBuilt == animStage = "built"
Satellites == 1..Len(satelliteData)
AFrame == animFrames' = animFrames + 1

\* C24: every tick advances each satellite's phase angle by its angular
\* speed, a full turn being taken off where needed, and each phase angle
\* lies in the half-open interval [0, 2 pi).
C24_PhaseInHalfOpenInterval ==
    /\ [](\A k \in Satellites :
              0 <= satelliteData[k].angle /\ satelliteData[k].angle < TwoPi)
    /\ [][AFrame =>
            \A k \in Satellites :
                satelliteData'[k].angle \in
                    { satelliteData[k].angle + satelliteData[k].speed,
                      satelliteData[k].angle + satelliteData[k].speed - TwoPi }]_vars

\* C25: every animated satellite's angular speed is strictly positive, and
\* of two animated satellites the one with the larger semi-major axis never
\* has the larger angular speed.
C25_SpeedPositiveAndMonotonic ==
    \A j, k \in Satellites :
        /\ satelliteData[k].speed > 0
        /\ RatLess(satelliteData[j].a, satelliteData[k].a) =>
               satelliteData[k].speed <= satelliteData[j].speed

\* C26: the geometry of every rendered ellipse is the one derived afresh
\* from the stored rows with the pixel scale of the current width and height.
C26_GeometryOfCurrentViewport ==
    (AnimBuilt /\ orbitTag = "ellipse") =>
        \A i \in orbitKeys :
            orbitGeometry[i] =
                EllipseGeometry(animRows, ScaleRange(animWidth, animHeight),
                                animWidth, animHeight,
                                GlobeRadius(bySemiMajor, animHeight))[i]


\* C29: after any interleaving of clicks, fade-out ends and resizes, at most
\* one satellite-animation timer is live, and it is the one the handle
\* names; once updateVis has run with state 1 no such timer is live and no
\* satellite element remains; and the state is 1 exactly when the button
\* reads "Full View".
C29_OneAnimationTimer ==
    AnimBuilt =>
        /\ Cardinality(animTimers) <= 1
        /\ animTimers \subseteq {satelliteAnimationTimer}
        /\ orbitTag = "circle" =>
              /\ animTimers = {}
              /\ satelliteAnimationTimer = 0
              /\ satelliteElements = 0
        /\ (visState = 1) <=> (buttonText = "Full View")

\* the simplified view, reached from a running animation and then resized
C29_Witness ==
    /\ AnimBuilt
    /\ visState = 1
    /\ orbitTag = "circle"
    /\ orbitKeys # {}
    /\ animHeight = 400
    /\ Len(satelliteData) = 2
    /\ animTimers = {}


(***************************************************************************)
(* The event-per-tick map (specification SpecDonut).                       *)
(***************************************************************************)
CategorySet == {categories[k] : k \in 1..Len(categories)}
\* the number of events of key among the first n of the chronological order
ConsumedWithKey(key, n) == Cardinality({j \in 1..n : donutEvents[j].key = key})
ConsumedKeys(n) == {donutEvents[j].key : j \in 1..n}

\* C27: after any number of ticks and restarts 0 <= i <= events.length, each
\* site's count is the sum of its four per-category counts, the site counts
\* add up to i, and each site counts the events of its key among the first i
\* events of the chronological order.
C27_SiteCountsFollowIndex ==
    donutBuilt =>
        /\ 0 <= donutI /\ donutI <= Len(donutEvents)
        /\ DOMAIN donutSites = ConsumedKeys(donutI)
        /\ \A key \in DOMAIN donutSites :
              /\ donutSites[key].count = SumOver(CategorySet, donutSites[key].byCat)
              /\ donutSites[key].count = ConsumedWithKey(key, donutI)
        /\ SumOver(DOMAIN donutSites, [key \in DOMAIN donutSites |-> donutSites[key].count])
              = donutI

\* one site counted twice, in two categories, after a restart
C27_Witness ==
    /\ donutBuilt
    /\ donutLoop
    /\ donutTicks = 5
    /\ donutI = 2
    /\ \E key \in DOMAIN donutSites :
          /\ donutSites[key].count = 2
          /\ donutSites[key].byCat["Military"] = 1
          /\ donutSites[key].byCat["Commercial"] = 1

\* a tick taken when every event is consumed
AtEndTick == donutBuilt /\ donutI >= Len(donutEvents) /\ donutTicks' = donutTicks + 1

\* C28: with loop = false a tick taken once all events are consumed leaves i
\* and the site aggregates unchanged; with loop = true it resets i to 0,
\* empties the site map and leaves exactly one live timer.
C28_EndOfTimelinePolicy ==
    [][AtEndTick =>
          IF donutLoop
          THEN /\ donutI' = 0
               /\ donutSites' = EmptyMap
               /\ Cardinality(donutLive') = 1
               /\ donutLive' = {donutTimer'}
          ELSE /\ donutI' = donutI
               /\ donutSites' = donutSites
               /\ donutLive' = donutLive]_vars

\* the timeline running again after a restart
C28_Witness ==
    /\ donutBuilt
    /\ donutLoop
    /\ Len(donutEvents) = 2
    /\ donutTicks = 4
    /\ donutI = 1
    /\ Cardinality(donutLive) = 1


(***************************************************************************)
(* The series of the line chart (specification SpecDominance).             *)
(***************************************************************************)
DomBuilt == dstage = "built"
YearSet == {domRaw[i].year : i \in 1..Len(domRaw)}
\* the satellites of vehicle v in the rows of the years up to y
SatellitesUpTo(v, y) ==
    SumOver({i \in 1..Len(domRaw) : domRaw[i].launch_vehicle = v /\ domRaw[i].year <= y},
            [i \in 1..Len(domRaw) |-> domRaw[i].num_satellites])

\* C30: the series of every displayed vehicle has one point per distinct
\* year of the dataset, in ascending order; accumulated_satellites never
\* decreases; its value at a year is the sum of the vehicle's satellites over
\* the years up to that one; and its last value is totalSatellites.
C30_SeriesAccumulates ==
    DomBuilt =>
        \A k \in 1..Len(vehicleData) :
            LET series == vehicleData[k].data
            IN /\ Len(series) = Cardinality(YearSet)
               /\ {series[j].year : j \in 1..Len(series)} = YearSet
               /\ \A j \in 1..(Len(series) - 1) :
                     /\ series[j].year < series[j + 1].year
                     /\ series[j].accumulated_satellites
                            <= series[j + 1].accumulated_satellites
               /\ \A j \in 1..Len(series) :
                     series[j].accumulated_satellites
                         = SatellitesUpTo(vehicleData[k].vehicle, series[j].year)
               /\ Len(series) > 0 =>
                     series[Len(series)].accumulated_satellites
                         = vehicleData[k].totalSatellites

\* a vehicle without a launch in the first year and with two later ones
C30_Witness ==
    /\ DomBuilt
    /\ \E k \in 1..Len(vehicleData) :
          /\ vehicleData[k].vehicle = "Falcon 9"
          /\ Len(vehicleData[k].data) = 3
          /\ vehicleData[k].data[1].launches = 0
          /\ vehicleData[k].data[2].accumulated_satellites = 5
          /\ vehicleData[k].data[3].accumulated_satellites = 11
          /\ vehicleData[k].totalSatellites = 11

====
